---- MODULE Spec2Model ----
(***************************************************************************)
(* A model of oamap's Dataset/DataArrays (src/oamap/dataset.py), of the    *)
(* PLURTP schema classes (src/oamap/schema.py) and of the code-transforming *)
(* compiler (src/arrowed/compiler.py).                                     *)
(*                                                                         *)
(* Numbers that may be numpy float64 values (the elements of an offsets    *)
(* array and everything computed from them) are kept in HALF UNITS: the    *)
(* model value h stands for the number h/2, so 0, 0.5, 1, 1.5 are 0, 1, 2, *)
(* 3.  Plain Python integers (indexes, slice fields, partition ids) are    *)
(* kept as they are.                                                       *)
(***************************************************************************)
EXTENDS Integers, Sequences, FiniteSets, TLC

VARIABLES
    ctorArgs,   \* arguments of the Dataset(...) call, or the record "unset"
    dataset,    \* the Dataset object: constructed flag, _offsets, its dtype
    call,       \* the last Dataset.__getitem__ call (its argument)
    result,     \* what the last Dataset call returned or raised
    backends,   \* the backends by namespace: iteration order, connection classes
    arrayset,   \* the DataArrays / DatasetArrays instance in use
    active,     \* its _active: namespace -> cached connection (0 is None)
    conns,      \* every connection instantiate has returned, with its close() count
    epoch,      \* per namespace: instantiate calls and first connection since close()
    lastGet,    \* the last arrays()/getall()/close() call and its outcome
    python,     \* sys.version_info[0] of the interpreter that runs oamap.schema
    schemas,    \* the Schema objects constructed so far, by identity 1, 2, ...
    lastOp,     \* the last schema constructor or mutation call and its outcome
    derived,    \* the last schema(prefix, delimiter) or repr(schema) call and its outcome
    symtable,   \* transform's symtable: the symbolic type of each name of the function
    required,   \* TransformedParameter.transformed: the column symbols required so far
    compiled,   \* the last statement given to the transformation and what it became
    run,        \* the last instruction of the rewritten code that was executed
    invocation, \* the parameters of a Compiled object and its last __call__
    symgen,     \* compile's symbolsused and sym.names, and the env entry of refusenone
    discovery   \* compile's search for the external functions that are called

dsvars == <<ctorArgs, dataset, call, result>>

arvars == <<backends, arrayset, active, conns, epoch, lastGet>>

scvars == <<python, schemas, lastOp, derived>>

fevars == <<symgen, discovery>>

cpvars == <<symtable, required, compiled, run, invocation, symgen, discovery>>

vars == <<ctorArgs, dataset, call, result, backends, arrayset, active, conns, epoch, lastGet,
          python, schemas, lastOp, derived, symtable, required, compiled, run, invocation,
          symgen, discovery>>

----------------------------------------------------------------------------
(* Bounds of the model.                                                    *)

MaxLen == 3     \* longest offsets argument
MaxVal == 3     \* largest finite offset (in whole units)
MaxIdx == 4     \* integer indexes and slice fields range over -MaxIdx..MaxIdx
MaxStep == 2    \* slice steps range over -MaxStep..MaxStep
MaxConn == 3    \* connections instantiated in one behaviour
MaxSize == 2    \* largest partition of the Datasets whose arrays are requested
MaxNodes == 2   \* Schema objects constructed in one behaviour
MaxKwds == 1    \* optional arguments that one constructor call passes explicitly
MaxFields == 2  \* entries of a fields dict, items of a possibilities/items list
MaxTree == 3    \* Schema objects of the schemas that are called and printed
RecursionLimit == 4  \* depth of the Python stack at which a call raises
MaxPath == 3    \* steps (.attr, [i], len) of one expression of a compiled function
MaxStmts == 2   \* statements of the body of a compiled function
MaxKey == 2     \* pieces of text of a key given to sym
MaxCalls == 3   \* calls of sym during one compile
MaxLine == 2    \* source lines that hold a subscript of a nullable list
MaxFcns == 2    \* functions of the environment that the compiled function may call
MaxRows == 2    \* rows of the begin and end columns of a list, and its largest offset
MaxParams == 3  \* parameters of a compiled function that is called
MaxArgs == 3    \* pass-through arguments given to one call

----------------------------------------------------------------------------
(* Generic helpers.                                                        *)

Abs(x) == IF x < 0 THEN -x ELSE x

Min2(a, b) == IF a <= b THEN a ELSE b

Max2(a, b) == IF a >= b THEN a ELSE b

SeqsUpTo(S, n) == UNION {[1..k -> S] : k \in 0..n}

Last(s) == s[Len(s)]

----------------------------------------------------------------------------
(* The values a caller can pass as offsets.                                *)

\* float64 +inf, in half units: larger than every finite element, so that
\* numpy's <= on it is the integers' <=
InfH == 2 * MaxVal + 2

\* an element: its Python/numpy type and its value in half units
IntElems == {[t |-> "int", h |-> 2 * v] : v \in -1..MaxVal}

FloatElems == {[t |-> "float", h |-> h] : h \in (0..2 * MaxVal) \cup {InfH}}

\* a Python list can mix integers with other objects (here the floats 1.0, 1.5)
ListElems == IntElems \cup {[t |-> "float", h |-> h] : h \in {2, 3}}

NoneArg == [kind |-> "None", ndim |-> 0, elems |-> <<>>]

ListArgs == {[kind |-> "list", ndim |-> 1, elems |-> e] : e \in SeqsUpTo(ListElems, MaxLen)}

NdArrayArgs ==
    {[kind |-> "ndarray", ndim |-> 1, elems |-> e] :
        e \in SeqsUpTo(IntElems, MaxLen) \cup SeqsUpTo(FloatElems, MaxLen)}
    \cup {[kind |-> "ndarray", ndim |-> d, elems |-> <<>>] : d \in {0, 2}}

OffsetsArgs == {NoneArg} \cup ListArgs \cup NdArrayArgs

SchemaArgs == {"List", "Record"}

----------------------------------------------------------------------------
(* Dataset.__init__                                                        *)

\* isinstance(x, numbers.Integral) and x >= 0, for all x
AllNonNegIntegral(elems) ==
    \A k \in 1..Len(elems) : elems[k].t = "int" /\ elems[k].h >= 0

\* numpy.array(offsets, dtype=numpy.int64): every element becomes an integer
NumpyArrayInt64(elems) ==
    [kind |-> "ndarray", ndim |-> 1,
     elems |-> [k \in 1..Len(elems) |-> [t |-> "int", h |-> 2 * (elems[k].h \div 2)]]]

\* numpy.all(offsets[:-1] <= offsets[1:])
Monotonic(elems) == \A k \in 1..(Len(elems) - 1) : elems[k].h <= elems[k + 1].h

NoDataset == [constructed |-> FALSE, offsets |-> <<>>]

Raised(e) == [kind |-> "error", err |-> e, partition |-> 0, local |-> 0,
              whence |-> 0, stride |-> 0, length |-> 0]

Returned(k) == [kind |-> k, err |-> "", partition |-> 0, local |-> 0,
                whence |-> 0, stride |-> 0, length |-> 0]

\* the outcome of Dataset(name, schema, backends, offsets): the error raised,
\* or "" and the array kept as self._offsets
DatasetInit(schema, offsets) ==
    IF schema # "List" THEN [err |-> "TypeError", offsets |-> <<>>]
    ELSE IF offsets.kind # "ndarray"
            /\ (offsets.kind = "None" \/ ~AllNonNegIntegral(offsets.elems))
    THEN [err |-> "TypeError", offsets |-> <<>>]
    ELSE LET arr == IF offsets.kind = "ndarray" THEN offsets
                    ELSE NumpyArrayInt64(offsets.elems)
         IN  IF arr.ndim # 1 THEN [err |-> "ValueError", offsets |-> <<>>]
             ELSE IF Len(arr.elems) < 2 \/ arr.elems[1].h # 0
             THEN [err |-> "ValueError", offsets |-> <<>>]
             ELSE IF ~Monotonic(arr.elems)
             THEN [err |-> "ValueError", offsets |-> <<>>]
             ELSE [err |-> "", offsets |-> arr.elems]

\* the half-unit values of self._offsets
OffsH(ds) == [k \in 1..Len(ds.offsets) |-> ds.offsets[k].h]

\* Dataset.numpartitions
numpartitions(ds) == Len(ds.offsets) - 1

\* Dataset.numentries is int(self._offsets[-1]): it truncates a float, and
\* int() of float infinity raises OverflowError
numentriesRaises(ds) == Last(OffsH(ds)) = InfH

numentries(ds) == Last(OffsH(ds)) \div 2

----------------------------------------------------------------------------
(* Dataset.__getitem__                                                     *)

\* numpy.searchsorted(a, v, side="right") on a sorted array a: the number of
\* elements that are <= v (v a whole number, a in half units)
searchsorted_right(a, v) == Cardinality({k \in 1..Len(a) : a[k] <= 2 * v})

\* Dataset.arrays(partitionid): the normalised id, or -1 for IndexError
arrays_normid(ds, partitionid) ==
    LET normid == IF partitionid >= 0 THEN partitionid
                  ELSE partitionid + numpartitions(ds)
    IN  IF 0 <= normid /\ normid < numpartitions(ds) THEN normid ELSE -1

\* dataset[index] for an integer index
getitem_int(ds, index) ==
    IF numentriesRaises(ds) THEN Raised("OverflowError")
    ELSE LET normindex == IF index >= 0 THEN index ELSE index + numentries(ds)
         IN  IF ~(0 <= normindex /\ normindex < numentries(ds))
             THEN Raised("IndexError")
             ELSE LET partitionid == searchsorted_right(OffsH(ds), normindex) - 1
                      localindex == 2 * normindex - OffsH(ds)[partitionid + 1]
                  IN  IF arrays_normid(ds, partitionid) = -1 THEN Raised("IndexError")
                      ELSE [Returned("item") EXCEPT
                                !.partition = arrays_normid(ds, partitionid),
                                !.local = localindex]

\* a slice field: None, or an integer
NoneField == [given |-> FALSE, v |-> 0]

SliceFields(S) == {NoneField} \cup {[given |-> TRUE, v |-> x] : x \in S}

SliceArgs == [start : SliceFields(-MaxIdx..MaxIdx),
              stop : SliceFields(-MaxIdx..MaxIdx),
              step : SliceFields(-MaxStep..MaxStep)]

\* one field of a slice against a length, as slice.indices clamps it
ClampField(f, length, lower, upper, ifNone) ==
    IF ~f.given THEN ifNone
    ELSE IF f.v < 0 THEN Max2(f.v + length, lower)
    ELSE Min2(f.v, upper)

\* oamap.util.slice2sss(index, length): the standard resolution of a slice
\* against a length (Python's slice.indices); step 0 raises ValueError
slice2sss(index, length) ==
    LET step == IF index.step.given THEN index.step.v ELSE 1
        lower == IF step < 0 THEN -1 ELSE 0
        upper == IF step < 0 THEN length - 1 ELSE length
    IN  [err |-> IF step = 0 THEN "ValueError" ELSE "",
         start |-> ClampField(index.start, length, lower, upper,
                              IF step < 0 THEN upper ELSE lower),
         stop |-> ClampField(index.stop, length, lower, upper,
                             IF step < 0 THEN lower ELSE upper),
         step |-> step]

\* out._length: divmod(abs(localstart - localstop), abs(step)), rounded up
view_length(localstart, localstop, step) ==
    LET a == Abs(localstart - localstop)
        d == a \div (2 * Abs(step))
        m == a % (2 * Abs(step))
    IN  d + (IF m # 0 THEN 1 ELSE 0)

\* dataset[index] for a slice
getitem_slice(ds, index) ==
    IF numentriesRaises(ds) THEN Raised("OverflowError")
    ELSE LET sss == slice2sss(index, numentries(ds)) IN
         IF sss.err # "" THEN Raised(sss.err)
         ELSE LET partitionid ==
                      Max2(0, Min2(searchsorted_right(OffsH(ds), sss.start) - 1,
                                   numpartitions(ds) - 1))
                  localstart == 2 * sss.start - OffsH(ds)[partitionid + 1]
                  localstop == 2 * sss.stop - OffsH(ds)[partitionid + 1]
                  size == OffsH(ds)[partitionid + 2] - OffsH(ds)[partitionid + 1]
              IN  IF localstop < -2 \/ localstop > size THEN Raised("IndexError")
                  ELSE IF arrays_normid(ds, partitionid) = -1 THEN Raised("IndexError")
                  ELSE [Returned("view") EXCEPT
                            !.partition = arrays_normid(ds, partitionid),
                            !.whence = localstart,
                            !.stride = sss.step,
                            !.length = view_length(localstart, localstop, sss.step)]

----------------------------------------------------------------------------
(* DataArrays and DatasetArrays: the array set of a Data object or of one  *)
(* partition of a Dataset.                                                 *)

Namespaces == {"A", "B"}

\* the roles a generator can request; the root list of the Dataset lives in
\* namespace "A", and startsrole/stopsrole are the two roles Dataset.arrays makes
startsrole == [kind |-> "starts", ns |-> "A"]

stopsrole == [kind |-> "stops", ns |-> "A"]

Roles == {startsrole, stopsrole} \cup {[kind |-> "data", ns |-> n] : n \in Namespaces}

\* the backends dictionary: the order in which items() yields the namespaces,
\* whether a namespace's connections offer getall (else item lookup only),
\* whether they offer close, and whether every backend holds an array under
\* every name (else only under the names of its own namespace)
BackendConfigs ==
    {[order |-> o, getall |-> g, close |-> c, holdsAll |-> h] :
        o \in {<<"A", "B">>, <<"B", "A">>},
        g \in [Namespaces -> BOOLEAN],
        c \in [Namespaces -> BOOLEAN],
        h \in BOOLEAN}

\* the roles under whose names the backend of namespace ns holds an array
Holds(b, ns) == IF b.holdsAll THEN Roles ELSE {x \in Roles : x.ns = ns}

NoArrays == [kind |-> "none", partitionid |-> -1, numentries |-> 0]

\* Data.arrays(): DataArrays(backends), whose _partitionid is None (here -1)
Data_arrays == [kind |-> "DataArrays", partitionid |-> -1, numentries |-> 0]

\* Dataset.arrays(partitionid): IndexError, or DatasetArrays(normid, startsrole,
\* stopsrole, offsets[normid + 1] - offsets[normid], backends)
Dataset_arrays(ds, partitionid) ==
    LET normid == arrays_normid(ds, partitionid) IN
        IF normid = -1 THEN NoArrays
        ELSE [kind |-> "DatasetArrays", partitionid |-> normid,
              numentries |-> OffsH(ds)[normid + 2] - OffsH(ds)[normid + 1]]

EmptyMap == [x \in {} |-> 0]

\* an array of the result: synthesized by the array set, or read from the
\* connection of a backend
Virtual(v) == [from |-> "virtual", v |-> v]

FromBackend(ns) == [from |-> ns, v |-> -1]

\* m with the entries of the roles in S set to val, as dict.update does
Update(m, S, val) ==
    [x \in (DOMAIN m) \cup S |-> IF x \in S THEN val ELSE m[x]]

\* DataArrays._toplevel and DatasetArrays._toplevel: the latter answers the
\* root starts and stops itself, with [0] and [numentries] in the position
\* dtype, and takes them out of the list for the backend
toplevel(a, out, filtered) ==
    IF a.kind # "DatasetArrays" THEN [out |-> out, filtered |-> filtered]
    ELSE LET o1 == IF startsrole \in filtered
                   THEN Update(out, {startsrole}, Virtual(0)) ELSE out
             o2 == IF stopsrole \in filtered
                   THEN Update(o1, {stopsrole}, Virtual(a.numentries \div 2)) ELSE o1
         IN  [out |-> o2, filtered |-> filtered \ {startsrole, stopsrole}]

\* self._active.get(namespace, None)
active_get(act, ns) == IF ns \in DOMAIN act THEN act[ns] ELSE 0

\* self._active[namespace] = <the connection backend.instantiate returned>
active_put_Dropped(act, ns, conn) == act

active_put(act, ns, conn) == [x \in (DOMAIN act) \cup {ns} |-> IF x = ns THEN conn ELSE act[x]]

\* the state of one getall call while it loops over the backends
GetState(act, cs, ep) ==
    [out |-> EmptyMap, active |-> act, conns |-> cs, epoch |-> ep, err |-> "",
     asked |-> [ns \in Namespaces |-> {}], used |-> [ns \in Namespaces |-> 0]]

\* one round of the loop of DataArrays.getall, for namespace ns
getall_step(a, b, roles, ns, st) ==
    LET top == toplevel(a, st.out, {x \in roles : x.ns = ns})
        filtered == top.filtered
        cached == active_get(st.active, ns)
        fresh == Len(st.conns) + 1
        conn == IF cached = 0 THEN fresh ELSE cached
        act1 == IF cached = 0 THEN active_put(st.active, ns, fresh) ELSE st.active
        cs1 == IF cached = 0
               THEN Append(st.conns, [ns |-> ns, partitionid |-> a.partitionid, closes |-> 0])
               ELSE st.conns
        ep1 == IF cached = 0
               THEN [st.epoch EXCEPT ![ns] =
                        [n |-> @.n + 1, first |-> IF @.n = 0 THEN fresh ELSE @.first]]
               ELSE st.epoch
        st1 == [st EXCEPT !.out = top.out]
        st2 == [st1 EXCEPT !.active = act1, !.conns = cs1, !.epoch = ep1,
                           !.used = [@ EXCEPT ![ns] = conn]]
    IN  IF filtered = {} THEN st1
        ELSE IF b.getall[ns]
        THEN [st2 EXCEPT !.out = Update(top.out, filtered, FromBackend(ns)),
                         !.asked = [@ EXCEPT ![ns] = filtered]]
        ELSE IF roles \subseteq Holds(b, ns)
        THEN [st2 EXCEPT !.out = Update(top.out, roles, FromBackend(ns)),
                         !.asked = [@ EXCEPT ![ns] = roles]]
        ELSE [st2 EXCEPT !.err = "KeyError",
                         !.asked = [@ EXCEPT ![ns] = roles]]

\* the loop of DataArrays.getall over self._backends.items(), from the k-th item;
\* an exception ends it
RECURSIVE getall_from(_, _, _, _, _)
getall_from(a, b, roles, k, st) ==
    IF k > Len(b.order) \/ st.err # "" THEN st
    ELSE getall_from(a, b, roles, k + 1, getall_step(a, b, roles, b.order[k], st))

\* DataArrays.getall(roles)
getall(a, b, roles, act, cs, ep) == getall_from(a, b, roles, 1, GetState(act, cs, ep))

\* close(): self._active[namespace] = None
active_reset_Kept(act, ns) == act

active_reset(act, ns) == [act EXCEPT ![ns] = 0]

\* close(): one round of the loop over self._active.items()
close_step(b, ns, st) ==
    LET conn == st.active[ns] IN
        [active |-> active_reset(st.active, ns),
         conns |-> IF conn # 0 /\ b.close[ns]
                   THEN [st.conns EXCEPT ![conn].closes = @ + 1]
                   ELSE st.conns]

\* DataArrays.close(): the loop over the namespaces that self._active holds
RECURSIVE close_over(_, _, _)
close_over(b, todo, st) ==
    IF todo = {} THEN st
    ELSE LET ns == CHOOSE x \in todo : TRUE
         IN  close_over(b, todo \ {ns}, close_step(b, ns, st))

close(b, act, cs) == close_over(b, DOMAIN act, [active |-> act, conns |-> cs])

----------------------------------------------------------------------------
(* The schema classes (oamap/schema.py): Primitive, List, Union, Record,   *)
(* Tuple and Pointer, their constructors and their validating setters.     *)

\* sys.version_info[0] of the interpreters the module is written for
PythonVersions == {2, 3}

Kinds == {"Primitive", "List", "Union", "Record", "Tuple", "Pointer"}

\* Python values that a caller passes for a field, written as their repr
PyNone == "None"

PyStrings == {"'s'"}

PyInt == "5"

\* isinstance(value, basestring)
IsString(value) == value \in PyStrings

\* a child argument is the identity (1, 2, ...) of a Schema object, or 0 for an
\* object that is not a Schema: isinstance(value, Schema)
IsSchema(value) == value # 0

\* numpy.dtype(value) raises TypeError for a value it does not understand
DtypeArgs == {"int64", "nonsense"}

\* dims: tuples of non-negative integers, and a tuple with a negative item, a
\* tuple with a float item and a list
DimsArgs == {"()", "(2,)", "(-1,)", "(1.5,)", "[2]"}

\* the keys of a fields dict, as the sequences of their characters:
\* "a", "b", "a-b" and "1x"
FieldKeys == {<<"a">>, <<"b">>, <<"a", "-", "b">>, <<"1", "x">>}

\* the characters [a-zA-Z_] and [a-zA-Z_0-9] of Record._identifier
IdentifierStart == {"a", "b", "x", "_"}

IdentifierPart == IdentifierStart \cup {"1"}

\* the longest prefix of n that Record._identifier matches, from position k
RECURSIVE IdentifierRun(_, _)
IdentifierRun(n, k) ==
    IF k <= Len(n) /\ n[k] \in IdentifierPart THEN IdentifierRun(n, k + 1) ELSE k - 1

\* self._identifier.match(n) is not None: re.match anchors the pattern at the
\* start of n only
identifier_match(n) == Len(n) >= 1 /\ n[1] \in IdentifierStart /\ IdentifierRun(n, 2) >= 1

\* a possibilities/items argument: a list of children, or an object that
\* cannot be iterated
NotIterable == [iterable |-> FALSE, items |-> <<>>]

ListOf(s) == [iterable |-> TRUE, items |-> s]

\* a fields argument: a dict from keys to children, or an object without items()
NotADict == [isdict |-> FALSE, items |-> EmptyMap]

DictOf(f) == [isdict |-> TRUE, items |-> f]

\* the fields arguments over n existing Schema objects: dicts of at most
\* MaxFields entries, and an object that is not a dict
FieldsArgs(n) ==
    {DictOf(f) : f \in UNION {[K -> 0..n] :
                     K \in {S \in SUBSET FieldKeys : Cardinality(S) <= MaxFields}}}
        \cup {NotADict}

\* the arguments of a constructor call with every optional argument at its
\* default; the attributes of a Schema object are the arguments it was made from
DefaultArgs ==
    [kind |-> "", dtype |-> "int64", dims |-> "()", nullable |-> "False",
     data |-> PyNone, mask |-> PyNone, name |-> PyNone, starts |-> PyNone,
     stops |-> PyNone, tags |-> PyNone, offsets |-> PyNone, positions |-> PyNone,
     content |-> 0, target |-> 0, possibilities |-> ListOf(<<>>),
     items |-> ListOf(<<>>), fields |-> DictOf(EmptyMap)]

\* the first exception of a sequence of assignments, "" if none raises
FirstErr(errs) ==
    IF \A k \in 1..Len(errs) : errs[k] = "" THEN ""
    ELSE errs[CHOOSE k \in 1..Len(errs) :
                 errs[k] # "" /\ \A j \in 1..(k - 1) : errs[j] = ""]

\* Schema.nullable setter
Schema_nullable(value) == IF value \notin {"True", "False"} THEN "TypeError" ELSE ""

\* the setters of mask, name, data, starts, stops and positions: None or a string
Schema_arrayname(value) ==
    IF ~(value = PyNone \/ IsString(value)) THEN "TypeError" ELSE ""

\* Primitive.dtype setter
Primitive_dtype(value) == IF value = "nonsense" THEN "TypeError" ELSE ""

\* Primitive.dims setter
Primitive_dims(value) == IF value \notin {"()", "(2,)"} THEN "TypeError" ELSE ""

\* List.content setter
List_content(value) == IF ~IsSchema(value) THEN "TypeError" ELSE ""

\* Union.tags, Union.offsets: plain attributes, assigned without a setter
Union_attribute(value) == ""

\* Union._extend and Tuple._extend: the loop is over the name value, which is
\* bound neither in _extend nor in the module
Union_extend(possibilities, start) == "NameError"

Tuple_extend(items, start) == "NameError"

\* raise TypeError(err.message), for an AssertionError err: BaseException has
\* the attribute message in Python 2 only
RaiseTypeErrorOfMessage(py) == IF py = 2 THEN "TypeError" ELSE "AttributeError"

\* Record._extend(fields, start): the exception it raises, "" if it assigns
Record_extend(py, fields) ==
    IF ~fields.isdict THEN "TypeError"
    ELSE IF \E n \in DOMAIN fields.items :
                ~identifier_match(n) \/ ~IsSchema(fields.items[n])
    THEN RaiseTypeErrorOfMessage(py)
    ELSE ""

\* Pointer.target setter: a Schema passes the test, and the assignment reads
\* the name target, which is not bound
Pointer_target(value) == IF ~IsSchema(value) THEN "TypeError" ELSE "NameError"

Primitive_init(args) ==
    FirstErr(<<Primitive_dtype(args.dtype), Primitive_dims(args.dims),
               Schema_nullable(args.nullable), Schema_arrayname(args.data),
               Schema_arrayname(args.mask), Schema_arrayname(args.name)>>)

List_init(args) ==
    FirstErr(<<List_content(args.content), Schema_nullable(args.nullable),
               Schema_arrayname(args.starts), Schema_arrayname(args.stops),
               Schema_arrayname(args.mask), Schema_arrayname(args.name)>>)

Union_init(args) ==
    FirstErr(<<Union_extend(args.possibilities, <<>>), Schema_nullable(args.nullable),
               Union_attribute(args.tags), Union_attribute(args.offsets),
               Schema_arrayname(args.mask), Schema_arrayname(args.name)>>)

Record_init(py, args) ==
    FirstErr(<<Record_extend(py, args.fields), Schema_nullable(args.nullable),
               Schema_arrayname(args.mask), Schema_arrayname(args.name)>>)

Tuple_init(args) ==
    FirstErr(<<Tuple_extend(args.items, <<>>), Schema_nullable(args.nullable),
               Schema_arrayname(args.mask), Schema_arrayname(args.name)>>)

Pointer_init(args) ==
    FirstErr(<<Pointer_target(args.target), Schema_nullable(args.nullable),
               Schema_arrayname(args.positions), Schema_arrayname(args.mask),
               Schema_arrayname(args.name)>>)

\* the exception that the constructor of args.kind raises, "" if it returns
Schema_init(py, args) ==
    CASE args.kind = "Primitive" -> Primitive_init(args)
      [] args.kind = "List" -> List_init(args)
      [] args.kind = "Union" -> Union_init(args)
      [] args.kind = "Record" -> Record_init(py, args)
      [] args.kind = "Tuple" -> Tuple_init(args)
      [] args.kind = "Pointer" -> Pointer_init(args)

\* the outcome of a call on the Schema objects: the exception and the objects
Outcome(err, objs) == [err |-> err, schemas |-> objs]

\* record.fields = value
Record_fields(py, objs, r, value) ==
    LET err == Record_extend(py, value) IN
        IF err # "" THEN Outcome(err, objs)
        ELSE Outcome("", [objs EXCEPT ![r].fields = value])

\* record[index] = value
Record_setitem(objs, r, index, value) ==
    IF ~IsSchema(value) THEN Outcome("TypeError", objs)
    ELSE Outcome("", [objs EXCEPT ![r].fields.items = Update(@, {index}, value)])

\* no schema call has been made; of a call are kept its arguments (of a
\* mutation: whether it was given a non-Schema element), the exception, the
\* object made or mutated and whether the objects are as before the call
NoOp == [op |-> "none", node |-> 0, args |-> DefaultArgs, nonSchema |-> FALSE,
         err |-> "", kept |-> TRUE]

\* no schema has been called or printed
NoDerived == [op |-> "none", node |-> 0, prefix |-> <<>>, delimiter |-> "",
              err |-> "", names |-> {}, out |-> <<>>]

SchemasIdle ==
    /\ python = 3
    /\ schemas = <<>>
    /\ lastOp = NoOp
    /\ derived = NoDerived

----------------------------------------------------------------------------
(* The compiler of src/arrowed/compiler.py: the symbolic types, the rules  *)
(* that rewrite the expressions of a function, and the functions that the  *)
(* rewritten code calls.                                                   *)
(*                                                                         *)
(* An expression of the function is a base (a name or None) followed by a  *)
(* path of steps .attr, [index], [a:b] and len(...).  Its rewritten form   *)
(* is an index expression: a base followed by the instructions that the    *)
(* rules wrapped around it, innermost first.                               *)

\* the schema given to parameter x in paramtypes, as schema.members() lists
\* it: x is a Record without a name; x.a is a List of Lists of nullable
\* Primitives, x.b a nullable Primitive, x.c a nullable List of Primitives
\* and x.r the Record named R, whose field d is a Primitive
ParamSchema ==
    << [kind |-> "Record", nullable |-> FALSE, name |-> "None",
        contents |-> [a |-> 2, b |-> 5, c |-> 6, r |-> 8]],
       [kind |-> "List", nullable |-> FALSE, name |-> "None", contents |-> [content |-> 3]],
       [kind |-> "List", nullable |-> FALSE, name |-> "None", contents |-> [content |-> 4]],
       [kind |-> "Primitive", nullable |-> TRUE, name |-> "None", contents |-> EmptyMap],
       [kind |-> "Primitive", nullable |-> TRUE, name |-> "None", contents |-> EmptyMap],
       [kind |-> "List", nullable |-> TRUE, name |-> "None", contents |-> [content |-> 7]],
       [kind |-> "Primitive", nullable |-> FALSE, name |-> "None", contents |-> EmptyMap],
       [kind |-> "Record", nullable |-> FALSE, name |-> "R", contents |-> [d |-> 7]] >>

\* the names of the function: x has a schema in paramtypes, n has none, y
\* is a local variable
Names == {"x", "n", "y"}

ArrowedType(possibilities, parameter) ==
    [kind |-> "type", possibilities |-> possibilities, parameter |-> parameter,
     isparameter |-> FALSE, nullable |-> FALSE]

\* the two module-level objects that are compared with "is"
untracked == [ArrowedType(<<>>, "None") EXCEPT !.kind = "untracked"]

nullable == [ArrowedType(<<>>, "None") EXCEPT !.kind = "nullable"]

\* a name that symtable has no entry for
Unbound == [ArrowedType(<<>>, "None") EXCEPT !.kind = "unbound"]

setnullable(t) ==
    [ArrowedType(t.possibilities, t.parameter) EXCEPT !.isparameter = t.isparameter,
                                                      !.nullable = TRUE]

ArrowedType_eq(self, other) ==
    /\ self.parameter = other.parameter
    /\ Len(self.possibilities) = Len(other.possibilities)
    /\ \A k \in 1..Len(self.possibilities) : self.possibilities[k] = other.possibilities[k]

\* symtable as transform leaves it after the parameters
TransformedParameter_atype == [ArrowedType(<<1>>, "x") EXCEPT !.isparameter = TRUE]

transform_symtable ==
    [v \in Names |-> IF v = "x" THEN TransformedParameter_atype
                     ELSE IF v = "n" THEN untracked ELSE Unbound]

\* TransformedParameter.require: the symbol of column attr of a member
\* a require that appends the column whether or not it is there
require_Again(transformed, member, attr) == Append(transformed, <<member, attr>>)

require(transformed, member, attr) ==
    IF \E k \in 1..Len(transformed) : transformed[k] = <<member, attr>>
    THEN transformed
    ELSE Append(transformed, <<member, attr>>)

Instr(op, member) == [op |-> op, member |-> member]

\* an expression node after recurse: the rewritten code, node.atype, the
\* columns required so far and the exception raised, if any
Node(base, atype, transformed) ==
    [base |-> base, instrs |-> <<>>, atype |-> atype, required |-> transformed, err |-> ""]

Wrap(node, op, member) == [node EXCEPT !.instrs = Append(@, Instr(op, member))]

Fail(node, err) == [node EXCEPT !.err = err]

\* ArrowedType.generate, given what the handler returns for each member; no
\* possibility leaves out = None, whose attribute atype the caller reads next
generate(node, handler) ==
    IF Len(node.atype.possibilities) = 0 THEN Fail(node, "AttributeError")
    ELSE handler[node.atype.possibilities[1]]

implicit(node) ==
    LET handler == [member \in DOMAIN ParamSchema |->
            LET schema == ParamSchema[member] IN
            IF schema.kind = "Primitive"
            THEN LET r == [node EXCEPT !.required = require(@, member, "array"),
                                       !.atype = untracked]
                 IN IF node.atype.nullable \/ schema.nullable
                    THEN Wrap(r, "PASSNONE", member)
                    ELSE Wrap(r, "GETITEM", member)
            ELSE node]
    IN IF node.err # "" THEN node
       ELSE IF node.atype.kind \in {"untracked", "nullable"} THEN node
       ELSE generate(node, handler)

do_Name(table, transformed, id) ==
    IF id = "None" THEN Node("None", nullable, transformed)
    ELSE IF table[id].kind \in {"unbound", "untracked"} THEN Node(id, untracked, transformed)
    ELSE IF table[id].isparameter THEN Node("0", table[id], transformed)
    ELSE implicit(Node(id, table[id], transformed))

\* a do_Attribute that shows the structure of every record, named or not
do_Attribute_Anonymous(value, attr) ==
    LET handler == [member \in DOMAIN ParamSchema |->
            LET schema == ParamSchema[member] IN
            IF schema.kind = "Record"
            THEN IF attr \in DOMAIN schema.contents
                 THEN [value EXCEPT !.atype = ArrowedType(<<schema.contents[attr]>>,
                                                          value.atype.parameter)]
                 ELSE Fail(value, "AttributeError: not found in record with structure")
            ELSE Fail(value, "TypeError")]
    IN IF value.atype.kind = "untracked" THEN Wrap(value, "Attribute", 0)
       ELSE implicit(generate(value, handler))

do_Attribute(value, attr) ==
    LET handler == [member \in DOMAIN ParamSchema |->
            LET schema == ParamSchema[member] IN
            IF schema.kind = "Record"
            THEN IF attr \in DOMAIN schema.contents
                 THEN [value EXCEPT !.atype = ArrowedType(<<schema.contents[attr]>>,
                                                          value.atype.parameter)]
                 ELSE IF schema.name = "None"
                 THEN Fail(value, "AttributeError: not found in record with structure")
                 ELSE Fail(value, "AttributeError: not found in record " \o schema.name)
            ELSE Fail(value, "TypeError")]
    IN IF value.atype.kind = "untracked" THEN Wrap(value, "Attribute", 0)
       ELSE implicit(generate(value, handler))

do_Subscript(value, slice) ==
    LET handler == [member \in DOMAIN ParamSchema |->
            LET schema == ParamSchema[member] IN
            IF schema.kind = "List"
            THEN LET r == [value EXCEPT
                             !.required = require(require(@, member, "beginarray"),
                                                  member, "endarray")]
                     outerindex == IF value.atype.nullable \/ schema.nullable
                                   THEN Wrap(r, "REFUSENONE", member)
                                   ELSE r
                 IN [Wrap(outerindex, "LISTGET", member) EXCEPT
                       !.atype = ArrowedType(<<schema.contents.content>>,
                                             value.atype.parameter)]
            ELSE Fail(value, "TypeError")]
    IN IF value.atype.kind = "untracked" THEN Wrap(value, "Subscript", 0)
       ELSE IF slice # "Index" THEN Fail(value, "NotImplementedError")
       ELSE implicit(generate(value, handler))

\* do_Call for a call of len with one argument; ast.Call has no field
\* "value", which the branch of a nullable list reads
do_Call(arg) ==
    LET handler == [member \in DOMAIN ParamSchema |->
            LET schema == ParamSchema[member] IN
            IF schema.kind = "List"
            THEN LET r == [arg EXCEPT
                             !.required = require(require(@, member, "beginarray"),
                                                  member, "endarray")]
                 IN IF arg.atype.nullable \/ schema.nullable
                    THEN Fail(r, "AttributeError")
                    ELSE [Wrap(r, "LISTLEN", member) EXCEPT !.atype = untracked]
            ELSE Fail(arg, "TypeError")]
    IN IF arg.atype.kind \in {"untracked", "nullable"}
       THEN [Wrap(arg, "Call", 0) EXCEPT !.atype = untracked]
       ELSE generate(arg, handler)

Attrs == {"a", "b", "c"}

Steps ==
    {[op |-> "Attribute", arg |-> a] : a \in Attrs}
      \cup {[op |-> "Subscript", arg |-> s] : s \in {"Index", "Slice"}}
      \cup {[op |-> "Call", arg |-> "len"]}

ExprsUpTo(n) == [base : Names \cup {"None"}, path : SeqsUpTo(Steps, n)]

\* the expressions that also reach x.r, its field d and a missing field z
RuleSteps == Steps \cup {[op |-> "Attribute", arg |-> a] : a \in {"r", "d", "z"}}

\* a name, one step from a name, or one step from a field a or r of a name
RulePaths ==
    {<<>>} \cup {<<s>> : s \in RuleSteps}
           \cup {<<[op |-> "Attribute", arg |-> f], s>> : f \in {"a", "r"}, s \in RuleSteps}

RuleExprs == [base : Names \cup {"None"}, path : RulePaths]

\* the value of a return statement that has none
NoValue == [base |-> "", path |-> <<>>]

Exprs == ExprsUpTo(MaxPath)

do_Step(node, step) ==
    IF step.op = "Attribute" THEN do_Attribute(node, step.arg)
    ELSE IF step.op = "Subscript" THEN do_Subscript(node, step.arg)
    ELSE do_Call(node)

\* transform's recurse on an expression: the innermost node first
RECURSIVE recurse_path(_, _, _)
recurse_path(node, path, k) ==
    IF k > Len(path) \/ node.err # "" THEN node
    ELSE recurse_path(do_Step(node, path[k]), path, k + 1)

recurse(table, transformed, expr) ==
    recurse_path(do_Name(table, transformed, expr.base), expr.path, 1)

\* do_Assign with one target that is a Name
do_Assign(table, transformed, lhs, expr) ==
    LET value == recurse(table, transformed, expr)
        bound == table[lhs].kind # "unbound"
        assigned ==
            IF value.atype.kind = "untracked" THEN [err |-> "", atype |-> table[lhs]]
            ELSE IF value.atype.kind = "nullable"
            THEN [err |-> "", atype |-> IF bound THEN setnullable(table[lhs]) ELSE nullable]
            ELSE IF bound /\ table[lhs].kind = "nullable"
            THEN [err |-> "", atype |-> setnullable(value.atype)]
            ELSE IF bound /\ ArrowedType_eq(table[lhs], value.atype)
            THEN [err |-> "", atype |-> table[lhs]]
            ELSE IF bound THEN [err |-> "TypeError: cannot use the same variable",
                                atype |-> table[lhs]]
            ELSE [err |-> "", atype |-> value.atype]
    IN IF value.err # "" THEN [value |-> value, err |-> value.err, symtable |-> table]
       ELSE [value |-> value, err |-> assigned.err,
             symtable |-> [table EXCEPT ![lhs] = assigned.atype]]

\* do_Return; recurse leaves the value None of "return" as it is, and the
\* attribute atype is read of it
do_Return(table, transformed, expr) ==
    LET value == recurse(table, transformed, expr) IN
    IF expr = NoValue THEN Fail(Node("", untracked, transformed), "AttributeError")
    ELSE IF value.err # "" THEN value
    ELSE IF value.atype.kind \in {"untracked", "nullable"} THEN value
    ELSE generate(value, [member \in DOMAIN ParamSchema |-> Wrap(value, "ToProxy", member)])

\* do_For with a loop variable that is a Name (target in Names) or not;
\* an iterable without possibilities leaves node.iter = None, which
\* Compiled.__init__ cannot compile
do_For(table, transformed, target, expr) ==
    LET iter == recurse(table, transformed, expr)
        handler == [member \in DOMAIN ParamSchema |->
            LET schema == ParamSchema[member] IN
            IF schema.kind = "List"
            THEN LET r == [iter EXCEPT
                             !.required = require(require(@, member, "beginarray"),
                                                  member, "endarray")]
                 IN [Wrap(r, "RANGE", member) EXCEPT !.atype = untracked]
            ELSE Fail(iter, "IndexError")]
        content == ArrowedType(<<ParamSchema[iter.atype.possibilities[1]].contents.content>>,
                               iter.atype.parameter)
    IN IF iter.err # "" THEN [iter |-> iter, symtable |-> table]
       ELSE IF iter.atype.kind = "untracked" THEN [iter |-> iter, symtable |-> table]
       ELSE IF target \notin Names
       THEN [iter |-> Fail(iter, "NotImplementedError"), symtable |-> table]
       ELSE IF Len(iter.atype.possibilities) = 0
       THEN [iter |-> Fail(iter, "TypeError"), symtable |-> table]
       ELSE LET out == generate(iter, handler) IN
            [iter |-> out,
             symtable |-> IF out.err = "" THEN [table EXCEPT ![target] = content] ELSE table]

\* the key of a column in TransformedParameter.require; sym returns it as
\* the symbol when no other name in use is equal to it
require_key(index, member, attr) ==
    "par" \o ToString(index) \o "_mem" \o ToString(member - 1) \o "_"
          \o ParamSchema[member].name \o "_" \o attr

\* TransformedParameter.transformed: the symbols of the required columns
TransformedParameter_transformed(index, transformed) ==
    [k \in 1..Len(transformed) |-> require_key(index, transformed[k][1], transformed[k][2])]

\* Parameters.args: the parameter names of the rewritten function, where
\* the parameter without a schema is n
RECURSIVE Parameters_args(_, _)
Parameters_args(order, k) ==
    IF k > Len(order) THEN <<>>
    ELSE (IF order[k].typed THEN order[k].transformed ELSE <<"n">>)
            \o Parameters_args(order, k + 1)

(* The functions inserted into the rewritten code.  A run-time value is    *)
(* None or an integer; an array is a sequence whose element k is at k + 1. *)

PyNoneValue == [none |-> TRUE, v |-> 0]

PyIntValue(n) == [none |-> FALSE, v |-> n]

Result(value) == [err |-> "", value |-> value, read |-> FALSE]

Raise(err) == [err |-> err, value |-> PyNoneValue, read |-> FALSE]

\* an integer argument of a call: the number wraps * 2^32 + low, where low
\* is within the range of int32
PyInt64(wraps, low) == [wraps |-> wraps, low |-> low]

\* the conversion to a parameter declared int32 keeps the low 32 bits
AsInt32(i) == i.low

refusenone(index) ==
    IF index.none THEN Raise("TypeError") ELSE Result(index)

\* passnone(array, index); numba checks no bounds, so that a read past the
\* end gives whatever the memory holds
passnone(array, index, garbage) ==
    IF index.none THEN Result(PyNoneValue)
    ELSE [Result(PyIntValue(IF index.v + 1 \in DOMAIN array THEN array[index.v + 1]
                            ELSE garbage)) EXCEPT !.read = TRUE]

\* ARRAY[INDEX] in the rewritten code itself
getitem(array, index, garbage) ==
    IF index.none THEN Raise("TypeError")
    ELSE [Result(PyIntValue(IF index.v + 1 \in DOMAIN array THEN array[index.v + 1]
                            ELSE garbage)) EXCEPT !.read = TRUE]

\* listget, declared int32(int32[:], int32[:], int32, int32)
listget(begin, end, outerindex, index) ==
    LET offset == begin[outerindex + 1]
        size == end[outerindex + 1] - offset
        index1 == IF index < 0 THEN size + index ELSE index
    IN IF index1 < 0 \/ index1 >= size THEN Raise("IndexError")
       ELSE Result(PyIntValue(offset + index1))

listlen(begin, end, index) == Result(PyIntValue(end[index + 1] - begin[index + 1]))

\* a range that also visits its end
range_Inclusive(begin, end, outerindex) ==
    [k \in 1..(end[outerindex + 1] - begin[outerindex + 1] + 1) |-> begin[outerindex + 1] + k - 1]

\* range(BEGIN[OUTERINDEX], END[OUTERINDEX]): the values the loop visits
range(begin, end, outerindex) ==
    [k \in 1..(end[outerindex + 1] - begin[outerindex + 1]) |-> begin[outerindex + 1] + k - 1]

(* Compiled.__call__: a parameter of the Compiled object is the list of    *)
(* its column symbols (a TransformedParameter) or an untyped parameter.    *)

Untyped == [typed |-> FALSE, transformed |-> <<>>]

Typed(symbols) == [typed |-> TRUE, transformed |-> symbols]

Column(symbol) == [column |-> symbol, v |-> 0]

Extra(v) == [column |-> "", v |-> v]

Columns(transformed) == [k \in 1..Len(transformed) |-> Column(transformed[k])]

\* the loop over self.parameters.order, from parameter k on
RECURSIVE Compiled_loop(_, _, _, _, _)
Compiled_loop(order, args, k, argsi, arguments) ==
    IF k > Len(order)
    THEN IF argsi < Len(args)
         THEN [err |-> "TypeError: too many", arguments |-> arguments, executed |-> FALSE]
         ELSE [err |-> "", arguments |-> arguments, executed |-> TRUE]
    ELSE IF order[k].typed
    THEN Compiled_loop(order, args, k + 1, argsi,
                       arguments \o Columns(order[k].transformed))
    ELSE IF argsi >= Len(args)
    THEN [err |-> "TypeError: too few", arguments |-> arguments, executed |-> FALSE]
    ELSE Compiled_loop(order, args, k + 1, argsi + 1, Append(arguments, Extra(args[argsi + 1])))

\* a __call__ that hands over whatever it has collected, too few or too many
Compiled_call_Unchecked(order, args) ==
    [Compiled_loop(order, args, 1, 0, <<>>) EXCEPT !.err = "", !.executed = TRUE]

Compiled_call(order, args) == Compiled_loop(order, args, 1, 0, <<>>)

\* the columns named in the code that an instruction stands for:
\* LISTGET(BEGIN, END, ...), LISTLEN(BEGIN, END, ...), range(BEGIN[...],
\* END[...]), PASSNONE(ARRAY, ...) and ARRAY[...]
ColumnsOf(instr) ==
    IF instr.op \in {"LISTGET", "LISTLEN", "RANGE"}
    THEN {<<instr.member, "beginarray">>, <<instr.member, "endarray">>}
    ELSE IF instr.op \in {"PASSNONE", "GETITEM"} THEN {<<instr.member, "array">>}
    ELSE {}

\* a ToProxy that names the first parameter whichever the value came from
ToProxy_OfFirst(index, value) ==
    [parameterid |-> 0, memberid |-> Last(value.instrs).member - 1,
     index |-> [base |-> value.base, instrs |-> SubSeq(value.instrs, 1, Len(value.instrs) - 1)]]

\* ToProxy(PARAMID, MEMBERID, INDEX) as do_Return writes it for a value of
\* the parameter at position index of the signature: MEMBERID is
\* reverse_members of the schema, INDEX the rewritten value
ToProxy(index, value) ==
    [parameterid |-> index, memberid |-> Last(value.instrs).member - 1,
     index |-> [base |-> value.base, instrs |-> SubSeq(value.instrs, 1, Len(value.instrs) - 1)]]

\* the end of Compiled.__call__ for a result that is a ToProxy: the proxy
\* of order[parameterid].members[memberid] at the index; a Parameter that
\* is not a TransformedParameter has no members
Compiled_proxy(order, out) ==
    IF order[out.parameterid + 1].typed
    THEN [err |-> "", member |-> out.memberid + 1, index |-> out.index]
    ELSE [err |-> "AttributeError", member |-> 0, index |-> out.index]

----------------------------------------------------------------------------
(* compile's generator of symbols.  A name or a key is a sequence of       *)
(* pieces of text: a piece is made of letters ("a", "refusenone"), of      *)
(* digits ("1", and the numbers that sym appends), of characters that an   *)
(* identifier cannot hold ("-"), or is the underscore.                     *)

Letters == {"a", "refusenone"}

Digits == {"1"} \cup {ToString(n) : n \in 2..(MaxCalls + 3)}

\* the pieces that sym.bad, [^a-zA-Z0-9_]*, does not match
IsIdentifierPiece(c) == c \in Letters \cup Digits \cup {"_"}

\* the loop of sym: the first trial that is not in symbolsused
RECURSIVE sym_trial(_, _, _, _)
sym_trial(prefix, trial, number, symbolsused) ==
    IF trial \notin symbolsused THEN trial
    ELSE sym_trial(prefix, prefix \o <<"_", ToString(number)>>, number + 1, symbolsused)

\* what sym(key) computes for a key that is not in sym.names
sym_new(key, symbolsused) ==
    LET stripped == SelectSeq(key, IsIdentifierPiece)
        prefix == IF Len(stripped) = 0 \/ stripped[1] \in Digits
                  THEN <<"_">> \o stripped ELSE stripped
    IN sym_trial(prefix, prefix, 2, symbolsused)

\* sym(key), given the generator; returns the generator and the name
sym(gen, key) ==
    IF key \in DOMAIN gen.names THEN [gen |-> gen, name |-> gen.names[key]]
    ELSE LET trial == sym_new(key, gen.symbolsused) IN
         [gen |-> [gen EXCEPT !.symbolsused = @ \cup {trial},
                              !.names = (key :> trial) @@ @],
          name |-> trial]

\* newrefusenone(env, sym, what, lineno, sourcefile): the function that
\* raises with the message of lineno is put into env under sym("refusenone")
newrefusenone(gen, lineno) ==
    LET s == sym(gen, <<"refusenone">>) IN
    [gen |-> [s.gen EXCEPT !.env = (s.name :> lineno) @@ @], name |-> s.name]

----------------------------------------------------------------------------
(* compile's search.  discovery.calls[f] lists the functions of the        *)
(* environment that the body of f calls, in the order of the source; 0 is  *)
(* the function that is compiled.  A frame of the stack is one call of     *)
(* search on the tree of a function, with the call it looks at next.       *)

Frame(fcn) == [fcn |-> fcn, next |-> 1]

\* search meets the next call of the function on top of the stack: the
\* callee is decompiled, stored in externalfcns and searched in turn
search_call(d) ==
    LET top == Last(d.stack)
        callee == d.calls[top.fcn][top.next]
        rest == SubSeq(d.stack, 1, Len(d.stack) - 1)
    IN IF Len(d.stack) + 1 > RecursionLimit
       THEN [d EXCEPT !.stack = <<>>, !.err = "RecursionError",
                      !.externalfcns = @ \cup {callee}]
       ELSE [d EXCEPT !.stack = rest \o <<[top EXCEPT !.next = @ + 1], Frame(callee)>>,
                      !.externalfcns = @ \cup {callee}]

\* search has seen every field of the function on top of the stack
search_return(d) ==
    [d EXCEPT !.stack = SubSeq(@, 1, Len(@) - 1), !.done = Len(d.stack) = 1]

NoDiscovery == [calls |-> <<>>, stack |-> <<>>, externalfcns |-> {}, err |-> "",
                done |-> FALSE]

\* compile has made no symbol
NoSymgen == [symbolsused |-> {}, inuse |-> {}, other |-> {}, names |-> EmptyMap, env |-> EmptyMap,
             minted |-> <<>>, checks |-> <<>>, raised |-> [check |-> 0, lineno |-> 0]]

\* nothing has been compiled, run or called
NoCompiled == [stmt |-> "none", target |-> "", expr |-> [base |-> "None", path |-> <<>>],
               bound |-> Unbound, value |-> Node("None", untracked, <<>>), err |-> "",
               count |-> 0]

NoRun == [op |-> "none", member |-> 0, pc |-> 0, in |-> PyNoneValue,
          index |-> PyInt64(0, 0), begin |-> <<>>, end |-> <<>>, array |-> <<>>,
          mask |-> <<>>, out |-> Result(PyNoneValue)]

NoProxy == [err |-> "", member |-> 0, index |-> [base |-> "None", instrs |-> <<>>]]

NoInvocation == [order |-> <<>>, called |-> FALSE, args |-> <<>>,
                 out |-> [err |-> "", arguments |-> <<>>, executed |-> FALSE],
                 proxy |-> NoProxy]

\* compile has not begun
FrontEndIdle == symgen = NoSymgen /\ discovery = NoDiscovery

\* nothing is transformed, run or called
TransformIdle ==
    /\ symtable = transform_symtable
    /\ required = <<>>
    /\ compiled = NoCompiled
    /\ run = NoRun
    /\ invocation = NoInvocation

CompilerIdle == TransformIdle /\ FrontEndIdle

----------------------------------------------------------------------------
(* The Dataset state machine.                                              *)

Unset == [schema |-> "", offsets |-> NoneArg, set |-> FALSE]

NoCall == [op |-> "none", index |-> 0,
           slice |-> [start |-> NoneField, stop |-> NoneField, step |-> NoneField]]

\* no array set is in use
NoGet == [op |-> "none", partitionid |-> 0, roles |-> {}, err |-> "",
          out |-> EmptyMap, asked |-> [ns \in Namespaces |-> {}],
          used |-> [ns \in Namespaces |-> 0], before |-> 0]

NoEpoch == [ns \in Namespaces |-> [n |-> 0, first |-> 0]]

ArraysIdle ==
    /\ backends = [order |-> <<"A", "B">>, getall |-> [ns \in Namespaces |-> TRUE],
                   close |-> [ns \in Namespaces |-> TRUE], holdsAll |-> FALSE]
    /\ arrayset = NoArrays
    /\ active = EmptyMap
    /\ conns = <<>>
    /\ epoch = NoEpoch
    /\ lastGet = NoGet

\* no Dataset(...) call has been made
DatasetUnset ==
    /\ ctorArgs = Unset
    /\ dataset = NoDataset
    /\ call = NoCall
    /\ result = Returned("none")

InitDataset ==
    /\ DatasetUnset
    /\ ArraysIdle
    /\ SchemasIdle
    /\ CompilerIdle

Construct ==
    /\ ~ctorArgs.set
    /\ \E schema \in SchemaArgs, offsets \in OffsetsArgs :
          LET r == DatasetInit(schema, offsets) IN
            /\ ctorArgs' = [schema |-> schema, offsets |-> offsets, set |-> TRUE]
            /\ dataset' = [constructed |-> r.err = "", offsets |-> r.offsets]
            /\ result' = IF r.err = "" THEN Returned("dataset") ELSE Raised(r.err)
    /\ call' = [NoCall EXCEPT !.op = "init"]
    /\ UNCHANGED <<arvars, scvars, cpvars>>

\* dataset[index] is called on a Dataset whose previous result was taken
Idle == call.op \in {"init", "idle"}

GetItemInt ==
    /\ dataset.constructed /\ Idle
    /\ \E index \in -(MaxIdx + 1)..(MaxIdx + 1) :
          /\ call' = [NoCall EXCEPT !.op = "getitem_int", !.index = index]
          /\ result' = getitem_int(dataset, index)
    /\ UNCHANGED <<ctorArgs, dataset>>
    /\ UNCHANGED <<arvars, scvars, cpvars>>

GetItemSlice ==
    /\ dataset.constructed /\ Idle
    /\ \E index \in SliceArgs :
          /\ call' = [NoCall EXCEPT !.op = "getitem_slice", !.slice = index]
          /\ result' = getitem_slice(dataset, index)
    /\ UNCHANGED <<ctorArgs, dataset>>
    /\ UNCHANGED <<arvars, scvars, cpvars>>

\* the caller takes the value or the exception of the last dataset[...]
TakeResult ==
    /\ call.op \in {"getitem_int", "getitem_slice"}
    /\ call' = [NoCall EXCEPT !.op = "idle"]
    /\ result' = Returned("none")
    /\ UNCHANGED <<ctorArgs, dataset>>
    /\ UNCHANGED <<arvars, scvars, cpvars>>

NextDataset == Construct \/ GetItemInt \/ GetItemSlice \/ TakeResult

SpecDataset == InitDataset /\ [][NextDataset]_vars

----------------------------------------------------------------------------
(* The array-set state machine: one DataArrays or DatasetArrays instance   *)
(* over the backends of a Data object / a constructed Dataset.             *)

\* the offsets of the Datasets whose partitions are opened: [0, s, s + MaxSize]
\* for s = 0 (an empty first partition) and s = 1
ArraysOffsets ==
    {[kind |-> "list", ndim |-> 1,
      elems |-> <<[t |-> "int", h |-> 0], [t |-> "int", h |-> 2 * s],
                  [t |-> "int", h |-> 2 * (s + MaxSize)]>>] : s \in {0, 1}}

InitArrays ==
    /\ \E a \in ArraysOffsets :
          /\ ctorArgs = [schema |-> "List", offsets |-> a, set |-> TRUE]
          /\ dataset = [constructed |-> TRUE, offsets |-> DatasetInit("List", a).offsets]
    /\ call = [NoCall EXCEPT !.op = "init"]
    /\ result = Returned("dataset")
    /\ backends \in BackendConfigs
    /\ arrayset = NoArrays
    /\ active = EmptyMap
    /\ conns = <<>>
    /\ epoch = NoEpoch
    /\ lastGet = NoGet
    /\ SchemasIdle
    /\ CompilerIdle

\* Data.arrays()
NewDataArrays ==
    /\ arrayset.kind = "none"
    /\ arrayset' = Data_arrays
    /\ lastGet' = [NoGet EXCEPT !.op = "Data.arrays"]
    /\ UNCHANGED <<backends, active, conns, epoch>>
    /\ UNCHANGED <<dsvars, scvars, cpvars>>

\* Dataset.arrays(partitionid)
NewDatasetArrays ==
    /\ arrayset.kind = "none"
    /\ \E partitionid \in -(numpartitions(dataset) + 1)..(numpartitions(dataset) + 1) :
          /\ arrayset' = Dataset_arrays(dataset, partitionid)
          /\ lastGet' = [NoGet EXCEPT
                            !.op = "Dataset.arrays",
                            !.partitionid = partitionid,
                            !.err = IF Dataset_arrays(dataset, partitionid) = NoArrays
                                    THEN "IndexError" ELSE ""]
    /\ UNCHANGED <<backends, active, conns, epoch>>
    /\ UNCHANGED <<dsvars, scvars, cpvars>>

\* the caller has taken the result of the previous call on the array set
CallerReady == lastGet.op \notin {"getall", "close"}

\* arrays.getall(roles)
GetAll ==
    /\ arrayset.kind # "none" /\ CallerReady
    /\ \E roles \in SUBSET Roles :
          LET st == getall(arrayset, backends, roles, active, conns, epoch) IN
            /\ Len(st.conns) <= MaxConn
            /\ active' = st.active
            /\ conns' = st.conns
            /\ epoch' = st.epoch
            /\ lastGet' = [op |-> "getall", partitionid |-> 0, roles |-> roles,
                           err |-> st.err, out |-> st.out, asked |-> st.asked,
                           used |-> st.used, before |-> Len(conns)]
    /\ UNCHANGED <<backends, arrayset>>
    /\ UNCHANGED <<dsvars, scvars, cpvars>>

\* arrays.close()
Close ==
    /\ arrayset.kind # "none" /\ CallerReady
    /\ LET st == close(backends, active, conns) IN
            /\ active' = st.active
            /\ conns' = st.conns
    /\ epoch' = NoEpoch
    /\ lastGet' = [NoGet EXCEPT !.op = "close", !.before = Len(conns),
                                !.used = [ns \in Namespaces |-> active_get(active, ns)]]
    /\ UNCHANGED <<backends, arrayset>>
    /\ UNCHANGED <<dsvars, scvars, cpvars>>

\* the caller takes what getall or close returned or raised
TakeArrays ==
    /\ lastGet.op \in {"getall", "close"}
    /\ lastGet' = [NoGet EXCEPT !.op = "idle"]
    /\ UNCHANGED <<backends, arrayset, active, conns, epoch>>
    /\ UNCHANGED <<dsvars, scvars, cpvars>>

NextArrays == NewDataArrays \/ NewDatasetArrays \/ GetAll \/ Close \/ TakeArrays

SpecArrays == InitArrays /\ [][NextArrays]_vars

----------------------------------------------------------------------------
(* The schema state machine: constructor calls and Record mutations on the *)
(* Schema objects of one interpreter.                                      *)

\* the required argument of each constructor, over n existing Schema objects
RequiredArgs(kind, n) ==
    CASE kind = "Primitive" ->
            {[DefaultArgs EXCEPT !.kind = kind, !.dtype = d] : d \in DtypeArgs}
      [] kind = "List" ->
            {[DefaultArgs EXCEPT !.kind = kind, !.content = c] : c \in 0..n}
      [] kind = "Union" ->
            {[DefaultArgs EXCEPT !.kind = kind, !.possibilities = p] :
                p \in {ListOf(s) : s \in SeqsUpTo(0..n, MaxFields)} \cup {NotIterable}}
      [] kind = "Record" ->
            {[DefaultArgs EXCEPT !.kind = kind, !.fields = f] : f \in FieldsArgs(n)}
      [] kind = "Tuple" ->
            {[DefaultArgs EXCEPT !.kind = kind, !.items = p] :
                p \in {ListOf(s) : s \in SeqsUpTo(0..n, MaxFields)} \cup {NotIterable}}
      [] kind = "Pointer" ->
            {[DefaultArgs EXCEPT !.kind = kind, !.target = c] : c \in 0..n}

\* the optional arguments of each constructor
KwNames(kind) ==
    CASE kind = "Primitive" -> {"dims", "nullable", "data", "mask", "name"}
      [] kind = "List" -> {"nullable", "starts", "stops", "mask", "name"}
      [] kind = "Union" -> {"nullable", "tags", "offsets", "mask", "name"}
      [] kind = "Record" -> {"nullable", "mask", "name"}
      [] kind = "Tuple" -> {"nullable", "mask", "name"}
      [] kind = "Pointer" -> {"nullable", "positions", "mask", "name"}

\* the values passed for an optional argument, other than its default
KwValues(k) ==
    CASE k = "dims" -> DimsArgs \ {"()"}
      [] k = "nullable" -> {"True", "1"}
      [] OTHER -> PyStrings \cup {PyInt}

\* the choices of at most MaxKwds optional arguments
Keywords(kind) ==
    UNION {{kw \in [K -> UNION {KwValues(k) : k \in K}] : \A k \in K : kw[k] \in KwValues(k)} :
              K \in {S \in SUBSET KwNames(kind) : Cardinality(S) <= MaxKwds}}

WithKeywords(args, kw) ==
    [a \in DOMAIN args |-> IF a \in DOMAIN kw THEN kw[a] ELSE args[a]]

CallArgs(kind, n) ==
    {WithKeywords(r, kw) : r \in RequiredArgs(kind, n), kw \in Keywords(kind)}

InitSchema ==
    /\ python \in PythonVersions
    /\ schemas = <<>>
    /\ lastOp = NoOp
    /\ derived = NoDerived
    /\ DatasetUnset
    /\ ArraysIdle
    /\ CompilerIdle

\* the caller has taken the outcome of the previous call
SchemaReady == lastOp.op \in {"none", "idle"}

\* kind(...): the constructor call of one of the six classes
New(kind) ==
    /\ SchemaReady
    /\ Len(schemas) < MaxNodes
    /\ \E args \in CallArgs(kind, Len(schemas)) :
          LET err == Schema_init(python, args) IN
            /\ schemas' = IF err = "" THEN Append(schemas, args) ELSE schemas
            /\ lastOp' = [NoOp EXCEPT !.op = kind,
                                      !.node = IF err = "" THEN Len(schemas) + 1 ELSE 0,
                                      !.args = args, !.err = err, !.kept = (err # "")]
    /\ UNCHANGED <<python, derived, dsvars, arvars, cpvars>>

NewPrimitive == New("Primitive")

NewList == New("List")

NewUnion == New("Union")

NewRecord == New("Record")

NewTuple == New("Tuple")

NewPointer == New("Pointer")

\* the Record objects
Records == {r \in 1..Len(schemas) : schemas[r].kind = "Record"}

\* record.fields = value
SetFields ==
    /\ SchemaReady
    /\ \E r \in Records, value \in FieldsArgs(Len(schemas)) :
          LET o == Record_fields(python, schemas, r, value) IN
            /\ schemas' = o.schemas
            /\ lastOp' = [NoOp EXCEPT
                            !.op = "Record.fields", !.node = r, !.err = o.err,
                            !.nonSchema = \E n \in DOMAIN value.items : ~IsSchema(value.items[n]),
                            !.kept = (o.schemas = schemas)]
    /\ UNCHANGED <<python, derived, dsvars, arvars, cpvars>>

\* record[index] = value, on a Record that keeps at most MaxFields fields
SetItem ==
    /\ SchemaReady
    /\ \E r \in Records, index \in FieldKeys, value \in 0..Len(schemas) :
          LET o == Record_setitem(schemas, r, index, value) IN
            /\ Cardinality(DOMAIN o.schemas[r].fields.items) <= MaxFields
            /\ schemas' = o.schemas
            /\ lastOp' = [NoOp EXCEPT
                            !.op = "Record.__setitem__", !.node = r, !.err = o.err,
                            !.nonSchema = ~IsSchema(value),
                            !.kept = (o.schemas = schemas)]
    /\ UNCHANGED <<python, derived, dsvars, arvars, cpvars>>

\* the caller takes what the call returned or raised
TakeSchema ==
    /\ ~SchemaReady
    /\ lastOp' = [NoOp EXCEPT !.op = "idle"]
    /\ UNCHANGED <<python, schemas, derived, dsvars, arvars, cpvars>>

NextSchema ==
    \/ NewPrimitive \/ NewList \/ NewUnion \/ NewRecord \/ NewTuple \/ NewPointer
    \/ SetFields \/ SetItem \/ TakeSchema

SpecSchema == InitSchema /\ [][NextSchema]_vars

----------------------------------------------------------------------------
(* Claims about Dataset.                                                   *)

\* h is a finite whole number
WholeH(h) == h # InfH /\ h % 2 = 0

\* every offset of the Dataset is a finite whole number
IntegerOffsets(ds) == \A k \in 1..Len(ds.offsets) : WholeH(ds.offsets[k].h)

\* the offsets that the data model allows: a one-dimensional sequence of
\* non-negative integers, at least two items, the first zero, non-decreasing
AllowedOffsets(a) ==
    /\ a.kind \in {"list", "ndarray"}
    /\ a.ndim = 1
    /\ Len(a.elems) >= 2
    /\ \A k \in 1..Len(a.elems) : WholeH(a.elems[k].h) /\ a.elems[k].h >= 0
    /\ a.elems[1].h = 0
    /\ \A k \in 1..(Len(a.elems) - 1) : a.elems[k].h <= a.elems[k + 1].h

\* C1: Dataset construction succeeds only for offsets that are a
\* one-dimensional sequence of non-negative integers with at least two items,
\* the first zero, non-decreasing; and then numentries = offsets[-1] >= 0 and
\* numpartitions = len(offsets) - 1 >= 1.
C1_ConstructedOnlyFromAllowedOffsets ==
    dataset.constructed =>
        /\ AllowedOffsets(ctorArgs.offsets)
        /\ ~numentriesRaises(dataset)
        /\ 2 * numentries(dataset) = Last(OffsH(dataset))
        /\ numentries(dataset) >= 0
        /\ numpartitions(dataset) = Len(ctorArgs.offsets.elems) - 1
        /\ numpartitions(dataset) >= 1

\* the partitions (0-based) that hold entry n: offsets[p] <= n < offsets[p+1]
Owners(ds, n) ==
    {p \in 0..(numpartitions(ds) - 1) :
        OffsH(ds)[p + 1] <= 2 * n /\ 2 * n < OffsH(ds)[p + 2]}

\* C2: on a constructed Dataset, dataset[i] with -numentries <= i < numentries
\* delegates to the unique partition p with offsets[p] <= n < offsets[p+1]
\* (n is i, plus numentries when i is negative) with local index
\* n - offsets[p], which lies in [0, size of p); every other integer i raises
\* IndexError.  (A last offset of float infinity leaves every i >= 0 in range.)
C2_IntegerIndexResolves ==
    call.op = "getitem_int" =>
        LET i == call.index
            inRange == IF numentriesRaises(dataset) THEN i >= 0
                       ELSE -numentries(dataset) <= i /\ i < numentries(dataset)
            n == IF i >= 0 THEN i ELSE i + numentries(dataset)
        IN  IF inRange
            THEN /\ result.kind = "item"
                 /\ Owners(dataset, n) = {result.partition}
                 /\ result.local = 2 * n - OffsH(dataset)[result.partition + 1]
                 /\ 0 <= result.local
                 /\ result.local < OffsH(dataset)[result.partition + 2]
                                      - OffsH(dataset)[result.partition + 1]
            ELSE result = Raised("IndexError")

\* the statement of C2 on the Datasets whose last offset is finite (integer or
\* float): there the index resolution is as claimed
C2_HoldsForFiniteOffsets ==
    ~dataset.constructed \/ numentriesRaises(dataset) \/ C2_IntegerIndexResolves

\* the entries that the resolved (start, stop, step) covers
Covered(sss) ==
    IF sss.step > 0 THEN sss.start..(sss.stop - 1) ELSE (sss.stop + 1)..sss.start

\* the partitions that hold an entry of the resolved range
CoveredPartitions(ds, sss) == UNION {Owners(ds, e) : e \in Covered(sss)}

\* C3: dataset[slice] raises IndexError whenever the resolved range covers
\* entries of more than one partition and returns a view of one partition
\* whenever the resolved range lies within one partition (Datasets with
\* integer offsets; a zero step is no resolved range).
C3_SliceSpanningIffError ==
    (call.op = "getitem_slice" /\ IntegerOffsets(dataset)) =>
        LET sss == slice2sss(call.slice, numentries(dataset))
            parts == CoveredPartitions(dataset, sss)
        IN  sss.err = "" =>
                IF Cardinality(parts) > 1 THEN result = Raised("IndexError")
                ELSE /\ result.kind = "view"
                     /\ parts \subseteq {result.partition}

\* the statement of C3 on the resolved ranges whose start and stop are ordered
\* in the direction of step: there the code raises exactly for spanning ranges
C3_HoldsForOrderedRanges ==
    (call.op = "getitem_slice" /\ IntegerOffsets(dataset)) =>
        LET sss == slice2sss(call.slice, numentries(dataset)) IN
            (sss.err = "" /\ (sss.stop - sss.start) * sss.step >= 0) =>
                C3_SliceSpanningIffError

\* the number of entries that (start, stop, step) selects
Selected(sss) ==
    Cardinality({k \in 0..(2 * MaxIdx + 2) :
        IF sss.step > 0 THEN sss.start + k * sss.step < sss.stop
        ELSE sss.start + k * sss.step > sss.stop})

\* C4: for every slice that dataset[slice] accepts, the view has
\* whence = start - offsets[p], stride = step and length = the number of
\* entries that the resolved (start, stop, step) selects, 0 for an empty range
\* (Datasets with integer offsets).
C4_ViewWindow ==
    (call.op = "getitem_slice" /\ IntegerOffsets(dataset) /\ result.kind = "view") =>
        LET sss == slice2sss(call.slice, numentries(dataset)) IN
            /\ result.whence = 2 * sss.start - OffsH(dataset)[result.partition + 1]
            /\ result.stride = sss.step
            /\ result.length = Selected(sss)

\* the part of C4 that the code keeps: whence and stride are as claimed, and
\* the length is right when start and stop are ordered in the direction of step
C4_ViewWindowOrdered ==
    (call.op = "getitem_slice" /\ IntegerOffsets(dataset) /\ result.kind = "view") =>
        LET sss == slice2sss(call.slice, numentries(dataset)) IN
            /\ result.whence = 2 * sss.start - OffsH(dataset)[result.partition + 1]
            /\ result.stride = sss.step
            /\ ((sss.stop - sss.start) * sss.step >= 0 => result.length = Selected(sss))

----------------------------------------------------------------------------
(* Claims about DataArrays / DatasetArrays.                                *)

\* the number of entries of the partition that the array set was opened on
PartitionSize == (OffsH(dataset)[arrayset.partitionid + 2]
                    - OffsH(dataset)[arrayset.partitionid + 1]) \div 2

\* the roles that a DatasetArrays answers itself
VirtualRoles == IF arrayset.kind = "DatasetArrays" THEN {startsrole, stopsrole} ELSE {}

\* C5: Dataset.arrays(p) accepts p in [-numpartitions, numpartitions), counting
\* negative ids from the end, and raises IndexError otherwise; every getall on
\* the array set it returns yields [0] and [offsets[p+1] - offsets[p]] for the
\* root starts and stops roles it is asked for, whatever the backend holds and
\* whatever its connection offers, and every other role from a backend.
C5_PartitionBoundsAreVirtual ==
    /\ lastGet.op = "Dataset.arrays" =>
          LET p == lastGet.partitionid
              np == numpartitions(dataset)
          IN  IF -np <= p /\ p < np
              THEN /\ lastGet.err = ""
                   /\ arrayset.kind = "DatasetArrays"
                   /\ arrayset.partitionid = (IF p >= 0 THEN p ELSE p + np)
              ELSE lastGet.err = "IndexError" /\ arrayset = NoArrays
    /\ (lastGet.op = "getall" /\ arrayset.kind = "DatasetArrays") =>
          /\ lastGet.err = ""
          /\ DOMAIN lastGet.out = lastGet.roles
          /\ startsrole \in lastGet.roles => lastGet.out[startsrole] = Virtual(0)
          /\ stopsrole \in lastGet.roles => lastGet.out[stopsrole] = Virtual(PartitionSize)
          /\ \A x \in lastGet.roles \ {startsrole, stopsrole} :
                lastGet.out[x].from \in Namespaces

\* the part of C5 that the code keeps: the bounds of the partition id, and the
\* virtual starts and stops whenever every connection that is asked offers getall
C5_HoldsWithGetallConnections ==
    (lastGet.op = "getall" /\ \E ns \in Namespaces :
                                 lastGet.used[ns] # 0 /\ ~backends.getall[ns])
        \/ C5_PartitionBoundsAreVirtual

\* C6: between two close() calls, getall calls backend.instantiate at most once
\* per namespace, with the partition id of the array set, and every request
\* for the namespace is served by the connection that first call returned.
C6_InstantiatedOncePerNamespace ==
    /\ \A ns \in Namespaces : epoch[ns].n <= 1
    /\ \A c \in 1..Len(conns) : conns[c].partitionid = arrayset.partitionid
    /\ lastGet.op = "getall" =>
          \A ns \in Namespaces : lastGet.used[ns] \in {0, epoch[ns].first}

\* a getall was served by a connection that an earlier getall had instantiated
C6_Witness ==
    /\ lastGet.op = "getall"
    /\ \E ns \in Namespaces :
          /\ lastGet.used[ns] # 0
          /\ lastGet.used[ns] <= lastGet.before
          /\ epoch[ns].n = 1

\* connection c is the one cached for its namespace
Cached(c) == conns[c].ns \in DOMAIN active /\ active[conns[c].ns] = c

\* C7: close() closes every cached connection that has a close method exactly
\* once and leaves no connection cached; a getall after it is served by a
\* fresh, never closed connection, and a second close() closes nothing again.
C7_CloseReleasesEveryConnection ==
    /\ \A c \in 1..Len(conns) :
          conns[c].closes = IF ~Cached(c) /\ backends.close[conns[c].ns] THEN 1 ELSE 0
    /\ lastGet.op = "close" => \A ns \in DOMAIN active : active[ns] = 0
    /\ lastGet.op = "getall" =>
          \A ns \in Namespaces :
              lastGet.used[ns] # 0 =>
                  Cached(lastGet.used[ns]) /\ conns[lastGet.used[ns]].closes = 0

\* a close() that closed a cached connection, after an earlier close() had
\* closed the connection cached before it
C7_Witness ==
    /\ lastGet.op = "close"
    /\ \E ns \in Namespaces :
          /\ lastGet.used[ns] # 0
          /\ conns[lastGet.used[ns]].closes = 1
          /\ \E c \in 1..Len(conns) :
                /\ c # lastGet.used[ns]
                /\ conns[c].ns = ns
                /\ conns[c].closes = 1

\* C8: getall instantiates the backend of a namespace only if a requested role
\* that the array set does not answer itself belongs to the namespace; it asks
\* each connection only for requested roles of the connection's namespace; and
\* the result holds exactly the requested roles, each from the backend of its
\* own namespace, with getall connections and with item-lookup connections.
C8_OnlyRequestedRolesFetched ==
    lastGet.op = "getall" =>
        /\ \A c \in (lastGet.before + 1)..Len(conns) :
              \E x \in lastGet.roles \ VirtualRoles : x.ns = conns[c].ns
        /\ \A ns \in Namespaces :
              lastGet.asked[ns] \subseteq {x \in lastGet.roles : x.ns = ns}
        /\ lastGet.err = ""
        /\ DOMAIN lastGet.out = lastGet.roles
        /\ \A x \in lastGet.roles :
              lastGet.out[x].from = (IF x \in VirtualRoles THEN "virtual" ELSE x.ns)

\* the statement of C8 for the calls in which every connection that is asked
\* offers getall
C8_HoldsWithGetallConnections ==
    (lastGet.op = "getall" /\ \E ns \in Namespaces :
                                 lastGet.used[ns] # 0 /\ ~backends.getall[ns])
        \/ C8_OnlyRequestedRolesFetched

----------------------------------------------------------------------------
(* Claims about the schema classes.                                        *)

\* an identifier by the pattern of Record._identifier over the whole of n
IsIdentifier(n) == identifier_match(n) /\ IdentifierRun(n, 2) = Len(n)

\* every argument of the call has the type its field is declared to have
AllValid(args) ==
    /\ args.dtype = "int64"
    /\ args.dims \in {"()", "(2,)"}
    /\ args.nullable \in {"True", "False"}
    /\ \A a \in {"data", "mask", "name", "starts", "stops", "tags", "offsets", "positions"} :
          args[a] = PyNone \/ IsString(args[a])
    /\ args.kind = "List" => IsSchema(args.content)
    /\ args.kind = "Pointer" => IsSchema(args.target)
    /\ args.kind = "Union" =>
          /\ args.possibilities.iterable
          /\ \A k \in 1..Len(args.possibilities.items) : IsSchema(args.possibilities.items[k])
    /\ args.kind = "Tuple" =>
          /\ args.items.iterable
          /\ \A k \in 1..Len(args.items.items) : IsSchema(args.items.items[k])
    /\ args.kind = "Record" =>
          /\ args.fields.isdict
          /\ \A n \in DOMAIN args.fields.items :
                IsIdentifier(n) /\ IsSchema(args.fields.items[n])

\* a collection argument holds an element that is not a Schema
HasNonSchema(args) ==
    \/ args.kind = "Union" /\ \E k \in 1..Len(args.possibilities.items) :
                                  ~IsSchema(args.possibilities.items[k])
    \/ args.kind = "Tuple" /\ \E k \in 1..Len(args.items.items) :
                                  ~IsSchema(args.items.items[k])
    \/ args.kind = "Record" /\ \E n \in DOMAIN args.fields.items :
                                  ~IsSchema(args.fields.items[n])

\* an argument of the call is a nullable that is not True/False, a mask, name
\* or array name that is neither None nor a string, a child that is not a
\* Schema, or a dims tuple with a negative or non-integer item
HasInvalid(args) ==
    \/ args.nullable \notin {"True", "False"}
    \/ \E a \in {"data", "mask", "name", "starts", "stops", "tags", "offsets", "positions"} :
          ~(args[a] = PyNone \/ IsString(args[a]))
    \/ args.dims \in {"(-1,)", "(1.5,)"}
    \/ args.kind = "List" /\ ~IsSchema(args.content)
    \/ args.kind = "Pointer" /\ ~IsSchema(args.target)
    \/ HasNonSchema(args)

\* C9: a constructor call of any of the six classes with all-valid arguments
\* returns an object whose attributes equal the arguments; a call with a
\* nullable that is not True/False, a mask/name/array name that is neither
\* None nor a string, a child that is not a Schema or a dims tuple with a
\* negative or non-integer item raises TypeError and makes no object.
C9_ConstructorsValidate ==
    lastOp.op \in Kinds =>
        /\ AllValid(lastOp.args) =>
              /\ lastOp.err = ""
              /\ lastOp.node = Len(schemas)
              /\ schemas[lastOp.node] = lastOp.args
        /\ HasInvalid(lastOp.args) => lastOp.err = "TypeError" /\ lastOp.kept

\* the statement of C9 for Primitive and List, and for Record except where its
\* _extend reads err.message under Python 3
C9_HoldsForPrimitiveListRecord ==
    \/ lastOp.op \in {"Union", "Tuple", "Pointer"}
    \/ lastOp.op = "Record" /\ Record_extend(python, lastOp.args.fields) = "AttributeError"
    \/ C9_ConstructorsValidate

\* C10: an assignment to the fields of a Record, of one index or of the whole
\* collection, that is given a value that is not a Schema raises TypeError and
\* leaves every Schema object as it was, also when the dict holds valid
\* entries besides the bad one.
C10_BadElementRaisesTypeError ==
    (lastOp.op \in {"Record.fields", "Record.__setitem__"} /\ lastOp.nonSchema) =>
        lastOp.err = "TypeError" /\ lastOp.kept

\* the part of C10 that the code keeps: the call raises and the objects are
\* as before
C10_BadElementLeavesContents ==
    (lastOp.op \in {"Record.fields", "Record.__setitem__"} /\ lastOp.nonSchema) =>
        lastOp.err # "" /\ lastOp.kept

\* the statement of C10 under Python 2, and for index assignment
C10_HoldsUnderPython2 ==
    (python = 3 /\ lastOp.op = "Record.fields") \/ C10_BadElementRaisesTypeError

\* C11: every field name of every Record is an identifier over its whole
\* length and every field value is a Schema, after any sequence of Record
\* constructions, fields assignments and index assignments.
C11_FieldNamesAreIdentifiers ==
    \A r \in Records :
        \A n \in DOMAIN schemas[r].fields.items :
            IsIdentifier(n) /\ IsSchema(schemas[r].fields.items[n])

\* the part of C11 that the code keeps: every field value is a Schema, and a
\* fields dict with a key that does not start as an identifier is refused
C11_FieldValuesAreSchemas ==
    /\ \A r \in Records :
          \A n \in DOMAIN schemas[r].fields.items : IsSchema(schemas[r].fields.items[n])
    /\ (lastOp.op = "Record" /\ lastOp.err = "") =>
          \A n \in DOMAIN lastOp.args.fields.items : identifier_match(n)

----------------------------------------------------------------------------
(* Calling a schema, schema(prefix, delimiter), which derives the array    *)
(* names of its nodes, and printing it, repr(schema).  Objects of the      *)
(* classes Primitive, List and Record are the ones a caller can hold.      *)

\* the default of the delimiter parameter of every __call__
DefaultDelimiter == "-"

Delimiters == {"-", "/"}

\* the prefix in use, as the sequence of its parts
Prefixes == {<<"object">>}

\* prefix + delimiter + segment
Join(prefix, delimiter, segment) == prefix \o <<delimiter, segment>>

\* the array name of an attribute: the name given explicitly, else the default
NameOr(value, default) == IF value = PyNone THEN default ELSE <<value>>

\* an array name that the call of object node gives to one of its arrays
Named(node, role, name) == [node |-> node, role |-> role, name |-> name]

Derivation(err, names) == [err |-> err, names |-> names]

\* the mask of a nullable node
MaskNames(objs, node, prefix, delimiter) ==
    IF objs[node].nullable = "True"
    THEN {Named(node, "mask", NameOr(objs[node].mask, Join(prefix, delimiter, "M")))}
    ELSE {}

\* Primitive.__call__, List.__call__ and Record.__call__ at the given depth of
\* the Python stack; List and Record call their children with a prefix only
RECURSIVE Schema_call(_, _, _, _, _)
Schema_call(objs, node, prefix, delimiter, depth) ==
    IF depth > RecursionLimit THEN Derivation("RecursionError", {})
    ELSE LET self == objs[node] IN
      CASE self.kind = "Primitive" ->
             Derivation("", {Named(node, "data", NameOr(self.data, prefix))}
                               \cup MaskNames(objs, node, prefix, delimiter))
        [] self.kind = "List" ->
             LET content == Schema_call(objs, self.content, Join(prefix, delimiter, "C"),
                                        DefaultDelimiter, depth + 1)
             IN  IF content.err # "" THEN Derivation(content.err, {})
                 ELSE Derivation("",
                        {Named(node, "starts", NameOr(self.starts, Join(prefix, delimiter, "B"))),
                         Named(node, "stops", NameOr(self.stops, Join(prefix, delimiter, "E")))}
                            \cup content.names
                            \cup MaskNames(objs, node, prefix, delimiter))
        [] self.kind = "Record" ->
             LET fields == {Schema_call(objs, self.fields.items[n],
                                        Join(prefix, delimiter, "F"),
                                        DefaultDelimiter, depth + 1) :
                               n \in DOMAIN self.fields.items}
             IN  IF \E f \in fields : f.err # ""
                 THEN Derivation((CHOOSE f \in fields : f.err # "").err, {})
                 ELSE Derivation("", UNION {f.names : f \in fields}
                                         \cup MaskNames(objs, node, prefix, delimiter))

\* the keys of FieldKeys in a fixed order, for walking the values of a Record
KeyOrder == <<<<"a">>, <<"b">>, <<"a", "-", "b">>, <<"1", "x">>>>

IsFieldOf(self, n) == n \in DOMAIN self.fields.items

\* the children of an object, in the order __repr__ and _collect walk them
ChildSeq(self) ==
    CASE self.kind = "Primitive" -> <<>>
      [] self.kind = "List" -> <<self.content>>
      [] self.kind = "Record" ->
            LET keys == SelectSeq(KeyOrder, LAMBDA n : IsFieldOf(self, n))
            IN  [k \in 1..Len(keys) |-> self.fields.items[keys[k]]]

\* Schema._collect(collection, labels) of the three classes, and its loop over
\* the children from the k-th
RECURSIVE collect(_, _, _)
RECURSIVE collect_children(_, _, _, _)
collect(objs, node, st) ==
    IF node \notin st.collection
    THEN collect_children(objs, ChildSeq(objs[node]), 1,
                          [st EXCEPT !.collection = @ \cup {node}])
    ELSE [st EXCEPT !.labels = Append(@, node)]

collect_children(objs, children, k, st) ==
    IF k > Len(children) THEN st
    ELSE collect_children(objs, children, k + 1, collect(objs, children[k], st))

\* Schema._labels
labels_of(objs, node) == collect(objs, node, [collection |-> {}, labels |-> <<>>]).labels

\* Schema._label: the index of the first label that is the node, -1 for None
label_of(labels, node) ==
    IF \E i \in 1..Len(labels) : labels[i] = node
    THEN (CHOOSE i \in 1..Len(labels) :
             labels[i] = node /\ \A j \in 1..(i - 1) : labels[j] # node) - 1
    ELSE -1

\* what __repr__ writes for one visit of a node: the node in full, without a
\* label ("open") or after "#label: " ("labelled"), or "#label" alone ("ref")
Token(t, node, label) == [t |-> t, node |-> node, label |-> label]

Printed(err, out, shown) == [err |-> err, out |-> out, shown |-> shown]

\* __repr__(labels, shown) of the three classes; top is the call without
\* arguments, which computes the labels and starts an empty shown.  A List
\* passes labels and shown on to its content; a Record prints every field
\* value with repr(x), the call without arguments.
RECURSIVE Schema_repr(_, _, _, _, _, _)
RECURSIVE repr_children(_, _, _, _, _, _, _)
Schema_repr(objs, node, top, labels0, shown0, depth) ==
    IF depth > RecursionLimit THEN Printed("RecursionError", <<>>, shown0)
    ELSE LET labels == IF top THEN labels_of(objs, node) ELSE labels0
             shown == IF top THEN {} ELSE shown0
             label == label_of(labels, node)
         IN  IF label = -1 \/ node \notin shown
             THEN LET body == repr_children(objs, ChildSeq(objs[node]), 1,
                                            objs[node].kind = "Record", labels,
                                            Printed("", <<>>, shown \cup {node}), depth + 1)
                      head == Token(IF label = -1 THEN "open" ELSE "labelled", node, label)
                  IN  IF body.err # "" THEN Printed(body.err, <<>>, body.shown)
                      ELSE Printed("", <<head>> \o body.out, body.shown)
             ELSE Printed("", <<Token("ref", node, label)>>, shown)

repr_children(objs, children, k, top, labels, st, depth) ==
    IF k > Len(children) \/ st.err # "" THEN st
    ELSE LET x == Schema_repr(objs, children[k], top, labels, st.shown, depth)
         IN  repr_children(objs, children, k + 1, top, labels,
                           Printed(x.err, st.out \o x.out,
                                   IF top THEN st.shown ELSE x.shown), depth)

----------------------------------------------------------------------------
(* The state machine of calling and printing: the Schema objects are one   *)
(* of the object graphs that constructor calls, record[index] = value and  *)
(* list.content = value can build, and are called and printed.             *)

\* the field names of the Records that are called and printed
TreeKeys == {<<"a">>, <<"b">>}

\* the objects of a graph of n objects: Primitives, Lists and Records, with
\* every array name at its default
TreeNodes(n) ==
    {[DefaultArgs EXCEPT !.kind = "Primitive", !.nullable = b] : b \in {"False", "True"}}
      \cup {[DefaultArgs EXCEPT !.kind = "List", !.content = c, !.nullable = b] :
               c \in 1..n, b \in {"False", "True"}}
      \cup {[DefaultArgs EXCEPT !.kind = "Record", !.fields = DictOf(f), !.nullable = b] :
               f \in UNION {[K -> 1..n] :
                        K \in {S \in SUBSET TreeKeys : Cardinality(S) <= MaxFields}},
               b \in {"False", "True"}}

\* the object graphs: the first object constructed is not a List, whose
\* constructor needs a Schema
TreeArenas ==
    UNION {{objs \in [1..n -> TreeNodes(n)] : objs[1].kind # "List"} : n \in 1..MaxTree}

InitDerive ==
    /\ python = 3
    /\ schemas \in TreeArenas
    /\ lastOp = [NoOp EXCEPT !.op = "idle"]
    /\ derived = [NoDerived EXCEPT !.op = "idle"]
    /\ DatasetUnset
    /\ ArraysIdle
    /\ CompilerIdle

\* the caller has taken the outcome of the previous call
DeriveReady == derived.op \in {"none", "idle"}

\* schema(prefix, delimiter) on one of the objects
CallSchema ==
    /\ DeriveReady
    /\ \E node \in 1..Len(schemas), prefix \in Prefixes, delimiter \in Delimiters :
          LET d == Schema_call(schemas, node, prefix, delimiter, 1) IN
            derived' = [NoDerived EXCEPT !.op = "call", !.node = node, !.prefix = prefix,
                                         !.delimiter = delimiter, !.err = d.err,
                                         !.names = d.names]
    /\ UNCHANGED <<python, schemas, lastOp, dsvars, arvars, cpvars>>

\* repr(schema) on one of the objects
ReprSchema ==
    /\ DeriveReady
    /\ \E node \in 1..Len(schemas) :
          LET p == Schema_repr(schemas, node, TRUE, <<>>, {}, 1) IN
            derived' = [NoDerived EXCEPT !.op = "repr", !.node = node, !.err = p.err,
                                         !.out = p.out]
    /\ UNCHANGED <<python, schemas, lastOp, dsvars, arvars, cpvars>>

\* the caller takes what the call returned or raised
TakeDerived ==
    /\ ~DeriveReady
    /\ derived' = [NoDerived EXCEPT !.op = "idle"]
    /\ UNCHANGED <<python, schemas, lastOp, dsvars, arvars, cpvars>>

NextDerive == CallSchema \/ ReprSchema \/ TakeDerived

SpecDerive == InitDerive /\ [][NextDerive]_vars

----------------------------------------------------------------------------
(* Claims about calling and printing a schema.                             *)

\* the objects that the children of the objects in S are
ChildrenOf(objs, S) == UNION {{ChildSeq(objs[m])[k] : k \in 1..Len(ChildSeq(objs[m]))} : m \in S}

\* the objects reached from the objects in S, S included
RECURSIVE ReachFrom(_, _)
ReachFrom(objs, S) ==
    IF ChildrenOf(objs, S) \subseteq S THEN S
    ELSE ReachFrom(objs, S \cup ChildrenOf(objs, S))

\* an object reached from node is reached from its own children
HasCycle(objs, node) ==
    \E n \in ReachFrom(objs, {node}) : n \in ReachFrom(objs, ChildrenOf(objs, {n}))

\* C12: calling a non-cyclic schema whose array names are all at their
\* defaults gives pairwise distinct array names to distinct nodes, for every
\* (prefix, delimiter); two fields of one Record never share an array name.
C12_NamesDistinctAcrossNodes ==
    (derived.op = "call" /\ ~HasCycle(schemas, derived.node)) =>
        /\ derived.err = ""
        /\ \A x, y \in derived.names : x.node # y.node => x.name # y.name

\* the part of C12 that the code keeps: the call returns, and the names are
\* distinct in a schema in which no Record has two fields
C12_DistinctWithoutSiblings ==
    (derived.op = "call" /\ ~HasCycle(schemas, derived.node)) =>
        /\ derived.err = ""
        /\ (\A r \in ReachFrom(schemas, {derived.node}) :
               Cardinality(DOMAIN schemas[r].fields.items) <= 1) =>
              \A x, y \in derived.names : x.node # y.node => x.name # y.name

\* name is prefix followed by segments that are each joined on with delimiter
JoinedWith(name, prefix, delimiter) ==
    /\ Len(name) >= Len(prefix)
    /\ SubSeq(name, 1, Len(prefix)) = prefix
    /\ (Len(name) - Len(prefix)) % 2 = 0
    /\ \A k \in (Len(prefix) + 1)..Len(name) :
          IF (k - Len(prefix)) % 2 = 1 THEN name[k] = delimiter
          ELSE name[k] \notin Delimiters

\* C13: every array name that schema(prefix, delimiter) derives, for a node at
\* any depth, is the caller's prefix followed by segments joined by the
\* caller's delimiter; no name contains another delimiter.
C13_DelimiterNestsThroughChildren ==
    (derived.op = "call" /\ derived.err = "") =>
        \A x \in derived.names : JoinedWith(x.name, derived.prefix, derived.delimiter)

\* the part of C13 that the code keeps: the names of the called node itself
\* are joined with the caller's delimiter, and every name is when the caller's
\* delimiter is the default one
C13_HoldsForDefaultDelimiter ==
    (derived.op = "call" /\ derived.err = "") =>
        \A x \in derived.names :
            (derived.delimiter = DefaultDelimiter
                \/ (x.node = derived.node /\ Len(x.name) <= Len(derived.prefix) + 2)) =>
                JoinedWith(x.name, derived.prefix, derived.delimiter)

\* the number of times the walk from node comes to object n: the fields and
\* contents of the objects reached that lead to it, and the start at node
Arrivals(objs, node, n) ==
    Cardinality({e \in ReachFrom(objs, {node}) \X (1..MaxFields) :
                    e[2] <= Len(ChildSeq(objs[e[1]])) /\ ChildSeq(objs[e[1]])[e[2]] = n})
        + (IF n = node THEN 1 ELSE 0)

\* the objects that the walk from node comes to more than once
Revisited(objs, node) == {n \in ReachFrom(objs, {node}) : Arrivals(objs, node, n) > 1}

\* the labels written in the output, and the nodes written with a label
LabelsIn(out) == {out[k].label : k \in {j \in 1..Len(out) : out[j].label >= 0}}

LabelledIn(out) == {out[k].node : k \in {j \in 1..Len(out) : out[j].label >= 0}}

\* C14: printing a schema with an identity cycle returns, and its output has a
\* back-reference label for every revisited node, the labels being #0, #1, ...
\* with one label per node and distinct labels for distinct nodes.
C14_CyclicReprTerminates ==
    (derived.op = "repr" /\ HasCycle(schemas, derived.node)) =>
        /\ derived.err = ""
        /\ LabelledIn(derived.out) = Revisited(schemas, derived.node)
        /\ LabelsIn(derived.out) = 0..(Cardinality(Revisited(schemas, derived.node)) - 1)
        /\ \A i, j \in 1..Len(derived.out) :
              (derived.out[i].label >= 0 /\ derived.out[j].label >= 0) =>
                  (derived.out[i].label = derived.out[j].label
                      <=> derived.out[i].node = derived.out[j].node)

\* the part of C14 that the code keeps: the statement for the cycles through
\* Lists only, and the termination of printing for every non-cyclic schema
C14_HoldsWithoutRecords ==
    derived.op = "repr" =>
        /\ ~HasCycle(schemas, derived.node) => derived.err = ""
        /\ (\A n \in ReachFrom(schemas, {derived.node}) : schemas[n].kind # "Record") =>
              C14_CyclicReprTerminates

\* C15: schema(prefix, delimiter) returns for every schema, also when a node
\* is reached from itself through its children.
C15_CallTerminatesOnCycles ==
    derived.op = "call" => derived.err = ""

\* the part of C15 that the code keeps: the call returns exactly for the
\* schemas without a cycle
C15_CallReturnsIffNoCycle ==
    derived.op = "call" => (derived.err = "" <=> ~HasCycle(schemas, derived.node))

----------------------------------------------------------------------------
(* The compiler state machine: the statements of one function body are     *)
(* transformed one after the other, the return statement last, and the     *)
(* rewritten return expression is then executed instruction by instruction *)
(* over the columns of a dataset.                                          *)

\* the body may begin with y = x.a or y = x.c, statements that bind y to a
\* list of the schema and require no column
Prologues ==
    {[base |-> "x", path |-> <<[op |-> "Attribute", arg |-> a]>>] : a \in {"a", "c"}}

\* the function begins with nothing, with y = x.a, y = x.c or y = None
InitCompile ==
    /\ symtable \in {transform_symtable}
                     \cup {do_Assign(transform_symtable, <<>>, "y", e).symtable :
                              e \in Prologues \cup {[base |-> "None", path |-> <<>>]}}
    /\ required = <<>>
    /\ compiled = NoCompiled
    /\ run = NoRun
    /\ invocation = NoInvocation
    /\ FrontEndIdle
    /\ DatasetUnset
    /\ ArraysIdle
    /\ SchemasIdle

\* the transformation has not failed and has not reached the return statement
Transforming == compiled.err = "" /\ compiled.stmt # "Return"

\* target = expr
CompileAssign ==
    /\ Transforming
    /\ compiled.count < MaxStmts - 1
    /\ \E lhs \in Names, expr \in ExprsUpTo(MaxPath - 1) :
          LET r == do_Assign(symtable, required, lhs, expr) IN
            /\ compiled' = [stmt |-> "Assign", target |-> lhs, expr |-> expr,
                            bound |-> symtable[lhs], value |-> r.value, err |-> r.err,
                            count |-> compiled.count + 1]
            /\ symtable' = r.symtable
            /\ required' = r.value.required
    /\ UNCHANGED <<run, invocation, dsvars, arvars, scvars, fevars>>

\* return expr
CompileReturn ==
    /\ Transforming
    /\ compiled.count < MaxStmts
    /\ \E expr \in Exprs \cup {NoValue} :
          LET r == do_Return(symtable, required, expr) IN
            /\ compiled' = [stmt |-> "Return", target |-> "", expr |-> expr,
                            bound |-> Unbound, value |-> r, err |-> r.err,
                            count |-> compiled.count + 1]
            /\ required' = r.required
    /\ UNCHANGED <<symtable, run, invocation, dsvars, arvars, scvars, fevars>>

\* the begin and end columns of a list: one offset per row
OffsetArrays == [1..MaxRows -> 0..MaxRows]

\* a list ends where it begins or later
ListColumns == {c \in [begin : OffsetArrays, end : OffsetArrays] :
                   \A k \in 1..MaxRows : c.begin[k] <= c.end[k]}

\* the data column of a Primitive, possibly shorter than its index needs
DataArrays_ == {[k \in 1..n |-> 10 + k] : n \in 0..MaxRows}

MaskArrays == [1..MaxRows -> {0, 1}]

\* what a read past the end of an array may give
Garbage == {-1, 77}

\* the integers that the index of a subscript evaluates to
IndexArgs == {PyInt64(w, l) : w \in 0..1, l \in (-MaxRows - 1)..(MaxRows + 1)}

\* the value of the innermost expression: the literal 0 that stands for the
\* parameter, None, or whatever row a variable holds
BaseValues(base) ==
    IF base = "0" THEN {PyIntValue(0)}
    ELSE IF base = "None" THEN {PyNoneValue}
    ELSE {PyIntValue(v) : v \in 0..(MaxRows - 1)} \cup {PyNoneValue}

InsertedOps == {"REFUSENONE", "LISTGET", "LISTLEN", "PASSNONE", "GETITEM", "ToProxy"}

\* the next instruction of the rewritten return expression is executed; the
\* functions that are run are those whose return statement comes first
RunStep ==
    /\ compiled.stmt = "Return"
    /\ compiled.count = 1
    /\ compiled.err = ""
    /\ run.out.err = ""
    /\ run.pc < Len(compiled.value.instrs)
    /\ LET instr == compiled.value.instrs[run.pc + 1]
           ins == IF run.pc = 0 THEN BaseValues(compiled.value.base) ELSE {run.out.value}
           step == [NoRun EXCEPT !.op = instr.op, !.member = instr.member,
                                 !.pc = run.pc + 1]
       IN /\ instr.op \in InsertedOps
          /\ \E in \in ins :
               \/ /\ instr.op = "REFUSENONE"
                  /\ run' = [step EXCEPT !.in = in, !.out = refusenone(in)]
               \/ /\ instr.op = "ToProxy"
                  /\ run' = [step EXCEPT !.in = in, !.out = Result(in)]
               \/ /\ instr.op = "LISTGET"
                  /\ ~in.none
                  /\ \E c \in ListColumns, index \in IndexArgs :
                        run' = [step EXCEPT !.in = in, !.begin = c.begin, !.end = c.end,
                                            !.index = index,
                                            !.out = listget(c.begin, c.end, in.v,
                                                            AsInt32(index))]
               \/ /\ instr.op = "LISTLEN"
                  /\ ~in.none
                  /\ \E c \in ListColumns :
                        run' = [step EXCEPT !.in = in, !.begin = c.begin, !.end = c.end,
                                            !.out = listlen(c.begin, c.end, in.v)]
               \/ /\ instr.op = "PASSNONE"
                  /\ \E array \in DataArrays_, mask \in MaskArrays, garbage \in Garbage :
                        run' = [step EXCEPT !.in = in, !.array = array, !.mask = mask,
                                            !.out = passnone(array, in, garbage)]
               \/ /\ instr.op = "GETITEM"
                  /\ \E array \in DataArrays_, mask \in MaskArrays, garbage \in Garbage :
                        run' = [step EXCEPT !.in = in, !.array = array, !.mask = mask,
                                            !.out = getitem(array, in, garbage)]
    /\ UNCHANGED <<symtable, required, compiled, invocation, dsvars, arvars, scvars, fevars>>

NextCompile == CompileAssign \/ CompileReturn \/ RunStep

SpecCompile == InitCompile /\ [][NextCompile]_vars

----------------------------------------------------------------------------
(* The state machine of a function of two statements at most, a loop and a *)
(* return, that is compiled and then called.  invocation.order holds the   *)
(* parameters in the order of the signature; the parameter with a schema   *)
(* is x, the one without is n.                                             *)

Signatures == {<<Typed(<<>>)>>, <<Typed(<<>>), Untyped>>, <<Untyped, Typed(<<>>)>>}

\* Parameter.index of the parameter with the schema
IndexOfTyped(order) == (CHOOSE k \in 1..Len(order) : order[k].typed) - 1

InitRules ==
    /\ symtable \in {transform_symtable}
                     \cup {do_Assign(transform_symtable, <<>>, "y", e).symtable : e \in Prologues}
    /\ required = <<>>
    /\ compiled = NoCompiled
    /\ run = NoRun
    /\ invocation \in {[NoInvocation EXCEPT !.order = o] : o \in Signatures}
    /\ FrontEndIdle
    /\ DatasetUnset
    /\ ArraysIdle
    /\ SchemasIdle

ForTargets == Names \cup {"tuple"}

ForIters == {e \in RuleExprs : Len(e.path) <= 1}

\* for target in expr: ...
CompileFor ==
    /\ compiled.stmt = "none"
    /\ \E target \in ForTargets, expr \in ForIters :
          LET r == do_For(symtable, required, target, expr) IN
            /\ compiled' = [stmt |-> "For", target |-> target, expr |-> expr,
                            bound |-> IF target \in Names THEN symtable[target] ELSE Unbound,
                            value |-> r.iter, err |-> r.iter.err,
                            count |-> compiled.count + 1]
            /\ symtable' = r.symtable
            /\ required' = r.iter.required
    /\ UNCHANGED <<run, invocation, dsvars, arvars, scvars, fevars>>

\* return expr, the last statement
ReturnValue ==
    /\ Transforming
    /\ run.op = "none"
    /\ \E expr \in RuleExprs :
          LET r == do_Return(symtable, required, expr) IN
            /\ compiled' = [stmt |-> "Return", target |-> "", expr |-> expr,
                            bound |-> Unbound, value |-> r, err |-> r.err,
                            count |-> compiled.count + 1]
            /\ required' = r.required
    /\ UNCHANGED <<symtable, run, invocation, dsvars, arvars, scvars, fevars>>

\* the loop of the compiled function is entered at some outer index
RunLoop ==
    /\ compiled.stmt = "For"
    /\ compiled.err = ""
    /\ run.op = "none"
    /\ Len(compiled.value.instrs) > 0
    /\ Last(compiled.value.instrs).op = "RANGE"
    /\ \E c \in ListColumns, outerindex \in 0..(MaxRows - 1) :
          run' = [NoRun EXCEPT !.op = "RANGE", !.member = Last(compiled.value.instrs).member,
                               !.in = PyIntValue(outerindex),
                               !.begin = c.begin, !.end = c.end,
                               !.out = Result(range(c.begin, c.end, outerindex))]
    /\ UNCHANGED <<symtable, required, compiled, invocation, dsvars, arvars, scvars, fevars>>

\* the order of Parameters once the body is transformed: the parameter with
\* the schema holds the symbols of its required columns
Parameters_order(order, transformed) ==
    [k \in 1..Len(order) |->
        IF order[k].typed
        THEN Typed(TransformedParameter_transformed(k - 1, transformed))
        ELSE order[k]]

\* compiled(resolved, *args) with as many extra arguments as the signature
\* has parameters without a schema; a ToProxy that is returned becomes a proxy
CallReturned ==
    /\ compiled.stmt = "Return"
    /\ compiled.err = ""
    /\ ~invocation.called
    /\ LET order == Parameters_order(invocation.order, required)
           extra == Cardinality({k \in 1..Len(order) : ~order[k].typed})
           value == compiled.value
       IN \E args \in [1..extra -> 1..MaxVal] :
            invocation' =
               [order |-> order, called |-> TRUE, args |-> args,
                out |-> Compiled_call(order, args),
                proxy |-> IF Len(value.instrs) > 0 /\ Last(value.instrs).op = "ToProxy"
                          THEN Compiled_proxy(order, ToProxy(IndexOfTyped(order), value))
                          ELSE NoProxy]
    /\ UNCHANGED <<symtable, required, compiled, run, dsvars, arvars, scvars, fevars>>

NextRules == CompileFor \/ ReturnValue \/ RunLoop \/ CallReturned

SpecRules == InitRules /\ [][NextRules]_vars

----------------------------------------------------------------------------
(* The state machine of the symbols that one compile makes.                *)

\* the names of env and of the Name nodes that search collects
EnvNames == {<<"a">>, <<"a", "_", "2">>}

\* names of the function that are no Name nodes: a parameter under Python
\* 3 (ast.arg), the alias of an import, the name of a caught exception
OtherNames == {<<"_", "1">>, <<"refusenone">>}

KeyPieces == {"a", "1", "-"}

Keys == SeqsUpTo(KeyPieces, MaxKey)

InitSym ==
    /\ symgen \in {[NoSymgen EXCEPT !.symbolsused = used, !.inuse = used \cup other,
                                     !.other = other] :
                       used \in SUBSET EnvNames, other \in SUBSET OtherNames}
    /\ discovery = NoDiscovery
    /\ TransformIdle
    /\ DatasetUnset
    /\ ArraysIdle
    /\ SchemasIdle

\* sym(key)
Sym ==
    /\ Len(symgen.minted) < MaxCalls
    /\ \E key \in Keys :
          LET s == sym(symgen, key) IN
          symgen' = [s.gen EXCEPT !.minted = Append(@, [key |-> key, name |-> s.name])]
    /\ UNCHANGED <<symtable, required, compiled, run, invocation, discovery,
                   dsvars, arvars, scvars>>

\* a subscript of a nullable list at line lineno is rewritten
NewRefuseNone ==
    /\ Len(symgen.minted) < MaxCalls
    /\ \E lineno \in 1..MaxLine :
          LET r == newrefusenone(symgen, lineno) IN
          symgen' = [r.gen EXCEPT
                        !.minted = Append(@, [key |-> <<"refusenone">>, name |-> r.name]),
                        !.checks = Append(@, [symbol |-> r.name, lineno |-> lineno])]
    /\ UNCHANGED <<symtable, required, compiled, run, invocation, discovery,
                   dsvars, arvars, scvars>>

\* the compiled function runs into None at one of its checks: the function
\* that env holds under the symbol of the check raises with its message
RefuseNone ==
    /\ symgen.raised.check = 0
    /\ \E k \in 1..Len(symgen.checks) :
          symgen' = [symgen EXCEPT !.raised =
                        [check |-> k, lineno |-> symgen.env[symgen.checks[k].symbol]]]
    /\ UNCHANGED <<symtable, required, compiled, run, invocation, discovery,
                   dsvars, arvars, scvars>>

NextSym == Sym \/ NewRefuseNone \/ RefuseNone

SpecSym == InitSym /\ [][NextSym]_vars

----------------------------------------------------------------------------
(* The state machine of compile's search.                                  *)

CallLists == SeqsUpTo(1..MaxFcns, MaxFcns)

InitSearch ==
    /\ discovery \in {[NoDiscovery EXCEPT !.calls = c, !.stack = <<Frame(0)>>] :
                          c \in [0..MaxFcns -> CallLists]}
    /\ symgen = NoSymgen
    /\ TransformIdle
    /\ DatasetUnset
    /\ ArraysIdle
    /\ SchemasIdle

\* the search is in a function
Searching == discovery.err = "" /\ Len(discovery.stack) > 0

SearchCall ==
    /\ Searching
    /\ Last(discovery.stack).next <= Len(discovery.calls[Last(discovery.stack).fcn])
    /\ discovery' = search_call(discovery)
    /\ UNCHANGED <<symtable, required, compiled, run, invocation, symgen,
                   dsvars, arvars, scvars>>

SearchReturn ==
    /\ Searching
    /\ Last(discovery.stack).next > Len(discovery.calls[Last(discovery.stack).fcn])
    /\ discovery' = search_return(discovery)
    /\ UNCHANGED <<symtable, required, compiled, run, invocation, symgen,
                   dsvars, arvars, scvars>>

NextSearch == SearchCall \/ SearchReturn

SpecSearch == InitSearch /\ [][NextSearch]_vars

----------------------------------------------------------------------------
(* The state machine of a Compiled object that is called.                  *)

ParamKinds ==
    {Untyped} \cup {Typed(s) : s \in {<<>>, <<"array">>, <<"beginarray", "endarray">>}}

InitCall ==
    /\ invocation \in {[NoInvocation EXCEPT !.order = o] : o \in SeqsUpTo(ParamKinds, MaxParams)}
    /\ symtable = transform_symtable
    /\ required = <<>>
    /\ compiled = NoCompiled
    /\ run = NoRun
    /\ FrontEndIdle
    /\ DatasetUnset
    /\ ArraysIdle
    /\ SchemasIdle

\* compiled(resolved, *args)
CallCompiled ==
    /\ ~invocation.called
    /\ \E args \in SeqsUpTo(1..MaxVal, MaxArgs) :
          invocation' = [invocation EXCEPT !.called = TRUE, !.args = args,
                                           !.out = Compiled_call(invocation.order, args)]
    /\ UNCHANGED <<symtable, required, compiled, run, dsvars, arvars, scvars, fevars>>

\* the caller takes what the call returned or raised
TakeOutcome ==
    /\ invocation.called
    /\ invocation' = [NoInvocation EXCEPT !.order = invocation.order]
    /\ UNCHANGED <<symtable, required, compiled, run, dsvars, arvars, scvars, fevars>>

NextCall == CallCompiled \/ TakeOutcome

SpecCall == InitCall /\ [][NextCall]_vars

----------------------------------------------------------------------------
(* Claims about the compiler.                                              *)

\* the column symbols that the parameter requires of a member
RequiredOf(member) == {required[k][2] : k \in {j \in 1..Len(required) : required[j][1] = member}}

\* the return expression ends in record.field
EndsInField ==
    /\ Len(compiled.expr.path) >= 1
    /\ Last(compiled.expr.path).op = "Attribute"

\* C16: for a nullable Primitive reached by record.field, when the mask of
\* the field holds zero at the queried index the rewritten code yields None
\* and reads no element of the data array, and a column of the field other
\* than its data array (its mask) is among the required columns.
C16_MaskGatesNullablePrimitive ==
    (/\ run.op = "PASSNONE"
     /\ EndsInField
     /\ ~run.in.none
     /\ run.mask[run.in.v + 1] = 0)
        => /\ run.out.err = ""
           /\ run.out.value.none
           /\ ~run.out.read
           /\ RequiredOf(run.member) # {"array"}

\* what the code does instead: the only column required of a Primitive is
\* its data array, and the rewritten code yields None exactly for the index
\* None, reading the data array for every other index
C16_OnlyDataArrayRequired ==
    /\ \A k \in 1..Len(required) :
          ParamSchema[required[k][1]].kind = "Primitive" => required[k][2] = "array"
    /\ run.op = "PASSNONE" =>
          /\ run.out.value.none <=> run.in.none
          /\ run.out.read <=> ~run.in.none

\* the expression that the last step of the return expression is applied to
Operand ==
    recurse(symtable, <<>>,
            [base |-> compiled.expr.base,
             path |-> SubSeq(compiled.expr.path, 1, Len(compiled.expr.path) - 1)])

\* that expression is tracked as a List of the schema
OperandIsList ==
    /\ compiled.stmt = "Return"
    /\ Len(compiled.expr.path) >= 1
    /\ Operand.err = ""
    /\ Operand.atype.kind = "type"
    /\ Len(Operand.atype.possibilities) = 1
    /\ ParamSchema[Operand.atype.possibilities[1]].kind = "List"

\* the return expression is a subscript of a List with a single index
IndexesList == OperandIsList /\ Last(compiled.expr.path) = [op |-> "Subscript", arg |-> "Index"]

\* the index i of x[i] is within the range of int32
IndexFitsInt32 == run.index.wraps = 0

\* the addressing that the claim states for the executed x[i]: i is the
\* number itself (it is not within -size..size-1 when it does not fit int32)
ListgetAsClaimed ==
    LET start == run.begin[run.in.v + 1]
        size == run.end[run.in.v + 1] - start
        i == run.index.low
    IN /\ (IndexFitsInt32 /\ 0 <= i /\ i < size) => run.out = Result(PyIntValue(start + i))
       /\ (IndexFitsInt32 /\ -size <= i /\ i < 0) =>
             run.out = Result(PyIntValue(start + size + i))
       /\ ~(IndexFitsInt32 /\ -size <= i /\ i < size) => run.out.err = "IndexError"
       /\ run.out.err = "" => (start <= run.out.value.v /\ run.out.value.v < run.end[run.in.v + 1])

\* what the transformation of a subscript of a List is claimed to do
SubscriptAsClaimed ==
    /\ IndexesList =>
          /\ compiled.err = ""
          /\ {"beginarray", "endarray"} \subseteq RequiredOf(Operand.atype.possibilities[1])
    /\ (OperandIsList /\ Last(compiled.expr.path) = [op |-> "Subscript", arg |-> "Slice"])
          => compiled.err # ""

\* C17: x[i] on a List at outer index o addresses starts[o]+i for
\* 0 <= i < size and starts[o]+size+i for -size <= i < 0, and raises an
\* IndexError for every other i; the starts and stops columns of the list
\* are required, and a subscript that is not a single index fails to compile.
C17_SubscriptAddressesOrRaises ==
    /\ SubscriptAsClaimed
    /\ run.op = "LISTGET" => ListgetAsClaimed

\* the same holds for every index that fits int32, the declared type of the
\* index parameter of listget
C17_HoldsWithinInt32 ==
    /\ SubscriptAsClaimed
    /\ (run.op = "LISTGET" /\ IndexFitsInt32) => ListgetAsClaimed

\* the return expression is len(...) of one argument
IsLen == Len(compiled.expr.path) >= 1 /\ Last(compiled.expr.path).op = "Call"

\* the argument of len is a nullable List: the List or the variable holding it
OperandNullable ==
    Operand.atype.nullable \/ ParamSchema[Operand.atype.possibilities[1]].nullable

\* what len of a List is claimed to be rewritten to: LISTLEN of its begin
\* and end columns, applied to REFUSENONE of the index when it is nullable
LenOfListAsClaimed ==
    LET instrs == compiled.value.instrs
        n == Len(instrs)
        member == Operand.atype.possibilities[1]
    IN /\ compiled.err = ""
       /\ n >= 1
       /\ instrs[n] = Instr("LISTLEN", member)
       /\ OperandNullable => (n >= 2 /\ instrs[n - 1] = Instr("REFUSENONE", member))

\* len of anything else: unchanged when untracked, refused when tracked
LenOfOtherAsClaimed ==
    /\ (Operand.err = "" /\ Operand.atype.kind = "untracked") =>
          /\ compiled.err = ""
          /\ Last(compiled.value.instrs) = Instr("Call", 0)
    /\ (/\ Operand.err = ""
        /\ Operand.atype.kind = "type"
        /\ Len(Operand.atype.possibilities) = 1
        /\ ParamSchema[Operand.atype.possibilities[1]].kind # "List") => compiled.err # ""

ListlenAsClaimed ==
    run.op = "LISTLEN" =>
        run.out = Result(PyIntValue(run.end[run.in.v + 1] - run.begin[run.in.v + 1]))

\* C18: len(x) of every List, nullable or not, compiles to code returning
\* stops[i] - starts[i], the null check of a nullable list being a refusal
\* at run time and never a failure of the compilation; len of an untracked
\* value is unchanged and len of a tracked non-List fails to compile.
C18_LenOfEveryListCompiles ==
    (compiled.stmt = "Return" /\ IsLen) =>
        /\ OperandIsList => LenOfListAsClaimed
        /\ LenOfOtherAsClaimed
        /\ ListlenAsClaimed

\* the same holds when the list is not nullable
C18_HoldsForNonNullableLists ==
    (compiled.stmt = "Return" /\ IsLen) =>
        /\ (OperandIsList /\ ~OperandNullable) => LenOfListAsClaimed
        /\ LenOfOtherAsClaimed
        /\ ListlenAsClaimed

\* len of a nullable List raises AttributeError while it is transformed
C18_NullableListFailsToCompile ==
    (compiled.stmt = "Return" /\ IsLen /\ OperandIsList /\ OperandNullable)
        => compiled.err = "AttributeError"

\* the node of the schema that an expression denotes, 0 when it denotes
\* none: the node of the variable, then the field of a Record for .attr and
\* the content of a List for [index]
RECURSIVE Denoted(_, _, _)
Denoted(member, path, k) ==
    IF member = 0 \/ k > Len(path) THEN member
    ELSE LET schema == ParamSchema[member]
             step == path[k]
         IN IF step.op = "Attribute" /\ schema.kind = "Record"
                                     /\ step.arg \in DOMAIN schema.contents
            THEN Denoted(schema.contents[step.arg], path, k + 1)
            ELSE IF step = [op |-> "Subscript", arg |-> "Index"] /\ schema.kind = "List"
            THEN Denoted(schema.contents.content, path, k + 1)
            ELSE 0

\* the node that a symbolic type stands for, 0 for none
NodeOf(atype) ==
    IF atype.kind = "type" /\ Len(atype.possibilities) = 1 THEN atype.possibilities[1] ELSE 0

\* the node that the value assigned by the last statement denotes; the
\* types are those before the statement (a statement that is accepted or
\* refused leaves the type of every other name alone)
RebindsTo ==
    LET before == [symtable EXCEPT ![compiled.target] = compiled.bound]
    IN IF compiled.expr.base \in Names
       THEN Denoted(NodeOf(before[compiled.expr.base]), compiled.expr.path, 1)
       ELSE 0

\* the last statement assigned, to a variable bound to a node of the
\* schema, a value that is a node of the schema
Rebinds ==
    /\ compiled.stmt = "Assign"
    /\ NodeOf(compiled.bound) # 0
    /\ RebindsTo # 0

\* C19: assigning to a variable bound to a part of the schema a value of a
\* different part fails at compile time with "cannot use the same variable
\* for different parts of a dataset structure"; assigning it a value of the
\* same part succeeds and leaves the type of the variable unchanged.
C19_RebindingIsChecked ==
    Rebinds =>
        IF RebindsTo = NodeOf(compiled.bound)
        THEN compiled.err = "" /\ symtable[compiled.target] = compiled.bound
        ELSE compiled.err = "TypeError: cannot use the same variable"

\* the same holds when the value assigned is not a Primitive
C19_HoldsForListsAndRecords ==
    (Rebinds /\ ParamSchema[RebindsTo].kind # "Primitive") =>
        IF RebindsTo = NodeOf(compiled.bound)
        THEN compiled.err = "" /\ symtable[compiled.target] = compiled.bound
        ELSE compiled.err = "TypeError: cannot use the same variable"

\* a Primitive is assigned without a check and the variable keeps its type
C19_PrimitiveIsNotChecked ==
    (Rebinds /\ ParamSchema[RebindsTo].kind = "Primitive") =>
        compiled.err = "" /\ symtable[compiled.target] = compiled.bound

\* the parameters of the called function that have no schema
UntypedParams == {k \in 1..Len(invocation.order) : ~invocation.order[k].typed}

\* the pass-through arguments among those handed to the compiled body
PassedThrough == SelectSeq(invocation.out.arguments, LAMBDA a : a.column = "")

\* C20: a call with fewer pass-through arguments than untyped parameters
\* raises "too few" and one with more raises "too many", neither executing
\* the compiled body; with exactly as many, the body is executed and gets
\* the pass-through arguments in their original order.
C20_ArityIsChecked ==
    invocation.called =>
        LET n == Cardinality(UntypedParams)
            a == Len(invocation.args)
        IN /\ a < n => (invocation.out.err = "TypeError: too few" /\ ~invocation.out.executed)
           /\ a > n => (invocation.out.err = "TypeError: too many" /\ ~invocation.out.executed)
           /\ a = n => /\ invocation.out.err = ""
                       /\ invocation.out.executed
                       /\ PassedThrough = [k \in 1..a |-> Extra(invocation.args[k])]

\* a call with two different pass-through arguments around the columns of
\* a typed parameter was executed
C20_Witness ==
    /\ invocation.called
    /\ invocation.out.executed
    /\ Len(invocation.args) = 2
    /\ invocation.args[1] # invocation.args[2]
    /\ \E k \in 1..Len(invocation.order) : Len(invocation.order[k].transformed) = 2
    /\ Len(invocation.out.arguments) = 4

----------------------------------------------------------------------------
(* The parameter list of the rewritten function.                           *)

\* the columns that the rewritten code of a statement names
Touched(node) == UNION {ColumnsOf(node.instrs[k]) : k \in 1..Len(node.instrs)}

Elements(s) == {s[k] : k \in 1..Len(s)}

\* the parameter list is the signature with the symbols of the columns in
\* the place of x, and n where it was
ParametersInPlace ==
    LET order == invocation.order
        t == IndexOfTyped(order) + 1
        symbols == order[t].transformed
        args == Parameters_args(order, 1)
    IN /\ Len(args) = Len(order) - 1 + Len(symbols)
       /\ \A k \in 1..Len(args) :
            args[k] = IF k < t \/ k >= t + Len(symbols) THEN "n" ELSE symbols[k - t + 1]
       /\ \A k \in 1..Len(symbols) :
            symbols[k] = require_key(t - 1, required[k][1], required[k][2])
       /\ Len(symbols) = Len(required)
       /\ \A j, k \in 1..Len(symbols) : j # k => symbols[j] # symbols[k]

\* every parameter receives its column, or the extra argument of its place
ArgumentsInPlace ==
    LET order == invocation.order
        t == IndexOfTyped(order) + 1
        args == Parameters_args(order, 1)
        arguments == invocation.out.arguments
    IN /\ invocation.out.executed
       /\ Len(arguments) = Len(args)
       /\ \A k \in 1..Len(args) :
            arguments[k] = IF k < t THEN Extra(invocation.args[k])
                           ELSE IF k >= t + Len(required)
                           THEN Extra(invocation.args[k - Len(required)])
                           ELSE Column(require_key(t - 1, required[k - t + 1][1],
                                                   required[k - t + 1][2]))

\* a statement that is transformed adds the columns its code names, once
\* each, and no other
RequiresWhatIsTouched ==
    (compiled' # compiled /\ compiled'.err = "")
       => /\ Elements(required') = Elements(required) \cup Touched(compiled'.value)
          /\ \A j, k \in 1..Len(required') : j # k => required'[j] # required'[k]

\* C21: the parameter list of the rewritten function keeps the order of the
\* signature, has the untyped parameter where it was and, in the place of
\* the typed parameter, one parameter for each column that the code of the
\* body names, none twice and none that the body does not name; the call
\* hands each of them the array of its member and attribute
C21_OneParameterPerRequiredColumn ==
    /\ [](invocation.called => ParametersInPlace /\ ArgumentsInPlace)
    /\ [][RequiresWhatIsTouched]_vars

\* list x.a is looped over and measured, and the function is called with
\* the parameter without a schema first
C21_Witness ==
    /\ invocation.called
    /\ compiled.count = 2
    /\ Len(invocation.order) = 2
    /\ ~invocation.order[1].typed
    /\ required = <<<<2, "beginarray">>, <<2, "endarray">>>>
    /\ Touched(compiled.value) = Elements(required)

----------------------------------------------------------------------------
(* The triple that stands for a returned part of the dataset.              *)

\* the node of the schema that the returned expression denotes, 0 for none
ReturnedNode ==
    IF compiled.stmt = "Return" /\ compiled.expr.base \in Names
    THEN Denoted(NodeOf(symtable[compiled.expr.base]), compiled.expr.path, 1)
    ELSE 0

\* the returned expression is a List or a Record of the schema
ReturnsTracked == ReturnedNode # 0 /\ ParamSchema[ReturnedNode].kind # "Primitive"

----------------------------------------------------------------------------
(* Attribute access.                                                       *)

\* the last statement returns an attribute of an expression
ReturnsAttribute ==
    /\ compiled.stmt = "Return"
    /\ compiled.expr.base \in Names
    /\ Len(compiled.expr.path) > 0
    /\ Last(compiled.expr.path).op = "Attribute"

\* the expression whose attribute is returned, as the transformer leaves it
AttributeOf ==
    recurse(symtable, <<>>,
            [base |-> compiled.expr.base,
             path |-> SubSeq(compiled.expr.path, 1, Len(compiled.expr.path) - 1)])

\* what the rule of attribute access makes of x.f, given x: the error, or
\* the code and the type of the field at the index of x
AttributeAsClaimed(x, f) ==
    LET node == NodeOf(x.atype)
        schema == ParamSchema[node]
        field == schema.contents[f]
        value == compiled.value
    IN IF x.atype.kind = "untracked"
       THEN /\ compiled.err = ""
            /\ value.base = x.base
            /\ value.instrs = Append(x.instrs, Instr("Attribute", 0))
            /\ value.atype = untracked
       ELSE IF schema.kind # "Record" THEN compiled.err = "TypeError"
       ELSE IF f \notin DOMAIN schema.contents
       THEN compiled.err = IF schema.name = "None"
                           THEN "AttributeError: not found in record with structure"
                           ELSE "AttributeError: not found in record " \o schema.name
       ELSE /\ compiled.err = ""
            /\ value.base = x.base
            /\ IF ParamSchema[field].kind = "Primitive"
               THEN /\ Len(value.instrs) = Len(x.instrs) + 1
                    /\ SubSeq(value.instrs, 1, Len(x.instrs)) = x.instrs
                    /\ Last(value.instrs).member = field
                    /\ Last(value.instrs).op \in {"PASSNONE", "GETITEM"}
               ELSE /\ value.instrs = Append(x.instrs, Instr("ToProxy", field))
                    /\ value.atype = ArrowedType(<<field>>, x.atype.parameter)

----------------------------------------------------------------------------
(* Loops over lists.                                                       *)

\* the last statement is a loop whose variable is a name
Loops == compiled.stmt = "For" /\ compiled.target \in Names

\* the iterable as the transformer leaves it, with the types that held
\* before the loop
Iterable == recurse([symtable EXCEPT ![compiled.target] = compiled.bound], <<>>, compiled.expr)

\* the positions visited are starts[o], starts[o] + 1, ..., stops[o] - 1
VisitsTheList ==
    LET b == run.begin[run.in.v + 1]
        e == run.end[run.in.v + 1]
        visited == run.out.value
    IN IF e <= b THEN visited = <<>>
       ELSE /\ visited[1] = b
            /\ visited[Len(visited)] = e - 1
            /\ \A k \in 1..(Len(visited) - 1) : visited[k + 1] = visited[k] + 1

\* what the rule for loops makes of the loop, given its iterable x
LoopAsClaimed(x) ==
    LET node == NodeOf(x.atype)
        before == [symtable EXCEPT ![compiled.target] = compiled.bound]
    IN IF x.atype.kind = "untracked"
       THEN /\ compiled.err = ""
            /\ compiled.value.base = x.base
            /\ compiled.value.instrs = x.instrs
            /\ symtable = before
       ELSE IF ParamSchema[node].kind # "List" THEN compiled.err # ""
       ELSE /\ compiled.err = ""
            /\ compiled.value.base = x.base
            /\ compiled.value.instrs = Append(x.instrs, Instr("RANGE", node))
            /\ symtable = [before EXCEPT ![compiled.target] =
                              ArrowedType(<<ParamSchema[node].contents.content>>,
                                          x.atype.parameter)]
            /\ run.op = "RANGE" => (run.member = node /\ VisitsTheList)

----------------------------------------------------------------------------
(* Assignments of None and of untracked values, and returns that pass      *)
(* through.                                                                *)

NoneExpr == [base |-> "None", path |-> <<>>]

\* the last statement assigned None to a variable
AssignsNone == compiled.stmt = "Assign" /\ compiled.expr = NoneExpr /\ compiled.err = ""

\* the next statement returns the variable that was assigned
ReadsTarget ==
    /\ compiled'.stmt = "Return"
    /\ compiled'.expr = [base |-> compiled.target, path |-> <<>>]

\* the returned name is left as it is
PassesThrough ==
    /\ compiled'.err = ""
    /\ compiled'.value.base = compiled'.expr.base
    /\ compiled'.value.instrs = <<>>

\* a variable with a schema type that is assigned None keeps its
\* possibilities and its parameter and is nullable
NoneKeepsSchema ==
    (AssignsNone /\ NodeOf(compiled.bound) # 0)
       => /\ symtable[compiled.target].possibilities = compiled.bound.possibilities
          /\ symtable[compiled.target].parameter = compiled.bound.parameter
          /\ symtable[compiled.target].nullable

\* a variable that was only assigned None takes the type of a schema-typed
\* value, marked nullable
NoneThenSchema ==
    (/\ compiled.stmt = "Assign"
     /\ compiled.bound = nullable
     /\ compiled.value.err = ""
     /\ NodeOf(compiled.value.atype) # 0)
       => /\ compiled.err = ""
          /\ symtable[compiled.target] = setnullable(compiled.value.atype)

\* an untracked variable or parameter that was assigned None is returned
\* as it is
NoneThenRead ==
    (AssignsNone /\ compiled.bound.kind \in {"untracked", "unbound"} /\ ReadsTarget)
       => PassesThrough

\* C27: assigning None to a variable only marks it nullable: a variable with
\* a schema type keeps its possibilities and parameter, a variable without
\* one can still be bound to a schema-typed value, which it then has as
\* nullable, and an untracked variable or parameter that is assigned None
\* still passes through unchanged where it is read afterwards
C27_NoneOnlyMarksNullable ==
    /\ [](NoneKeepsSchema /\ NoneThenSchema)
    /\ [][NoneThenRead]_vars

\* the part of C27 that holds: the schema of a variable survives None, and
\* a variable that is None takes a schema
C27_SchemaSurvivesNone == NoneKeepsSchema /\ NoneThenSchema

\* a variable that never was bound is returned as it is after it was
\* assigned None
C27_HoldsForNewVariables ==
    [][(AssignsNone /\ compiled.bound.kind = "unbound" /\ ReadsTarget) => PassesThrough]_vars

----------------------------------------------------------------------------

\* the value returned as the transformer leaves it before do_Return
ReturnedValue == recurse(symtable, <<>>, compiled.expr)

\* the return statement has no value, or a value that is untracked or None
ReturnsUntracked ==
    /\ compiled.stmt = "Return"
    /\ \/ compiled.expr = NoValue
       \/ /\ compiled.expr # NoValue
          /\ ReturnedValue.err = ""
          /\ ReturnedValue.atype.kind \in {"untracked", "nullable"}

\* the statement is transformed without an error and returns the value as
\* recurse left it
ReturnUnchanged ==
    /\ compiled.err = ""
    /\ compiled.expr # NoValue =>
          /\ compiled.value.base = ReturnedValue.base
          /\ compiled.value.instrs = ReturnedValue.instrs

\* C29: a return statement whose value is untracked or None passes through
\* the transformer with its value unchanged and without an error: return
\* None, return of an ordinary expression, return of a read of a Primitive,
\* and return without a value
C29_ReturnPassesThrough == ReturnsUntracked => ReturnUnchanged

\* the part of C29 that holds: a return statement that has a value
C29_HoldsWithAValue == (ReturnsUntracked /\ compiled.expr # NoValue) => ReturnUnchanged

----------------------------------------------------------------------------

\* the last statement assigned an untracked value to a variable that was
\* bound to a node of the schema
AssignsUntracked ==
    /\ compiled.stmt = "Assign"
    /\ compiled.err = ""
    /\ compiled.value.atype.kind = "untracked"
    /\ NodeOf(compiled.bound) # 0

\* C30: the symbol table follows the most recent assignment: a variable
\* bound to a schema type that is assigned an untracked value is untracked
\* from then on, and a later read of it passes through unchanged, never
\* rewritten into array indexing or a ToProxy
C30_SymtableFollowsAssignment ==
    /\ [](AssignsUntracked => symtable[compiled.target].kind = "untracked")
    /\ [][(AssignsUntracked /\ ReadsTarget) => PassesThrough]_vars

\* the part of C30 that holds: a variable without a schema type that is
\* assigned an untracked value is read as untracked
C30_HoldsForUntrackedVariables ==
    [][(/\ compiled.stmt = "Assign"
        /\ compiled.err = ""
        /\ compiled.value.atype.kind = "untracked"
        /\ compiled.bound.kind \in {"untracked", "unbound"}
        /\ ReadsTarget) => PassesThrough]_vars

----------------------------------------------------------------------------
(* The symbols that compile makes.                                         *)

\* call k of sym was the first one with its key
FirstOfItsKey(k) == \A j \in 1..(k - 1) : symgen.minted[j].key # symgen.minted[k].key

\* non-empty, of letters, digits and underscores, not beginning with a digit
LegalIdentifier(name) ==
    /\ Len(name) > 0
    /\ \A k \in 1..Len(name) : IsIdentifierPiece(name[k])
    /\ name[1] \notin Digits

\* what the claim says of the names that the calls of sym returned
SymbolsAsClaimed ==
    LET minted == symgen.minted IN
    /\ \A j, k \in 1..Len(minted) :
          (minted[j].key = minted[k].key) <=> (minted[j].name = minted[k].name)
    /\ \A k \in 1..Len(minted) :
          /\ FirstOfItsKey(k) => minted[k].name \notin symgen.inuse
          /\ LegalIdentifier(minted[k].name)

\* C26: within one compile, sym returns the same name for the same key and
\* different names for different keys, never a name that was in use before
\* it was made (in env, in the function or its external functions, or made
\* earlier), and always a legal identifier
C26_SymbolsAreFresh == SymbolsAsClaimed

\* the part of C26 that holds: when every name in use is in env or a Name
\* node of the function
C26_HoldsForCollectedNames == symgen.other = {} => SymbolsAsClaimed

----------------------------------------------------------------------------

\* the check that ran into None reports its own line
ReportsOwnLine ==
    symgen.raised.lineno = symgen.checks[symgen.raised.check].lineno

\* C28: when the compiled function has checks for None at several lines,
\* the error that a check raises reports the line of that check, not the
\* line of another
C28_CheckReportsItsOwnLine == symgen.raised.check # 0 => ReportsOwnLine

\* the part of C28 that holds: the check that was made last
C28_HoldsForTheLastCheck ==
    (symgen.raised.check # 0 /\ symgen.raised.check = Len(symgen.checks)) => ReportsOwnLine

----------------------------------------------------------------------------
(* The end of compile's search.                                            *)

\* function f reaches function g through calls
RECURSIVE Reaches(_, _, _)
Reaches(f, g, steps) ==
    /\ steps > 0
    /\ \E k \in 1..Len(discovery.calls[f]) :
          \/ discovery.calls[f][k] = g
          \/ Reaches(discovery.calls[f][k], g, steps - 1)

\* a function that the compiled function reaches calls itself, or two of
\* them call each other
Recursive ==
    \E g \in 1..MaxFcns : Reaches(0, g, MaxFcns + 1) /\ Reaches(g, g, MaxFcns + 1)

\* C23: compile's search for the external functions finishes for every
\* function and environment, also when an external function calls itself
\* or two call each other
C23_SearchFinishes == discovery.err # "RecursionError"

\* the part of C23 that holds: without such a function the search does not
\* run out of stack
C23_HoldsWithoutRecursion ==
    (DOMAIN discovery.calls # {} /\ ~Recursive) => discovery.err = ""

\* only a recursive function ends the search with the error
C23_RecursionIsTheCause ==
    discovery.err = "RecursionError" => Recursive

====
